---- MODULE Spec2Model ----
(***************************************************************************)
(* Verification model of the Telegram private-chat relay bot:              *)
(*   - RateLimitDO.check            (atomic counter service)               *)
(*   - RateLimitDO.acquireLock / renewLock / releaseLock and withUserLock  *)
(*     (lease lock service)                                                *)
(*   - forwardToTopic / verification / Lost transition (self-healing       *)
(*     router)                                                             *)
(* Each subsystem has its own specification over its own variables; the    *)
(* variables of the other subsystems stay at their initial value.          *)
(***************************************************************************)
EXTENDS Integers, Sequences, FiniteSets, TLC

(***************************************************************************)
(* Bounds of the model (not program constants).                            *)
(***************************************************************************)
RLMaxTime == 5000
RLMaxLimit == 3
RLMaxWindow == 2
RLMaxPending == 2

(* One tick of the model clock, in milliseconds (Date.now() granularity    *)
(* used by the model).                                                     *)
TickMs == 1000

(***************************************************************************)
(* State.                                                                 *)
(***************************************************************************)
\* Part 1: RateLimitDO.check
VARIABLES
    rlNow,      \* Date.now() seen by the Durable Object
    rlLimit,    \* limit passed by the caller for this key
    rlWindow,   \* window (seconds) passed by the caller for this key
    rlRow,      \* rate_limits row of the key (SQLite)
    rlCache,    \* this.cache entry of the key (in-memory Map)
    rlPending,  \* check calls issued and not yet executed by the object
    rlBurst,    \* bookkeeping of one burst of concurrent calls
    rlLast,     \* last executed check: its result, its time, the row before and after
    rlCaller    \* what checkRateLimit last returned to its caller, and what it logged

rlVars == <<rlNow, rlLimit, rlWindow, rlRow, rlCache, rlPending, rlBurst, rlLast,
           rlCaller>>

\* Part 2: lease lock service and its callers
VARIABLES
    lkNow,      \* Date.now()
    lkCfg,      \* config given to withUserLock
    lkRow,      \* user_locks row of the lock key
    lkPc,       \* position of each webhook invocation
    lkKind,     \* what each invocation handles
    lkToken,    \* ownerToken of each invocation (0 = none)
    lkNextToken,\* source of fresh secureRandomId values
    lkDeadline, \* acquireUserLock: deadline
    lkWake,     \* acquireUserLock: end of the current sleep
    lkHb,       \* heartbeat coroutine of withUserLock
    lkStop,     \* stopHeartbeat
    lkHbErr,    \* heartbeatError is set
    lkFn,       \* how fn() ended inside withUserLock
    lkOutcome,  \* how the handler ended
    lkGrant,    \* lease the caller was last granted (acquire / renew result)
    lkEffects,  \* side effects of the pipeline in this invocation
    lkLate,     \* side effects performed after a rejected renewal
    lkRuns,     \* times fn() was started in this invocation
    lkRpcFail   \* RPC failures so far

lkVars == <<lkNow, lkCfg, lkRow, lkPc, lkKind, lkToken, lkNextToken, lkDeadline,
            lkWake, lkHb, lkStop, lkHbErr, lkFn, lkOutcome, lkGrant, lkEffects,
            lkLate, lkRuns, lkRpcFail>>

\* Part 3: self-healing router (one user)
VARIABLES
    users,               \* D1 users row of the user: verify_state, thread_id
    threads,             \* D1 threads table: thread ids mapped to the user
    TOPIC_MAP,           \* KV namespace: needs_verify, user_challenge, chal:*,
                         \* forwarded:*, thread_ok:*
    rateLimit,           \* RateLimitDO counters of the user: message, verify
    threadHealthCache,   \* in-process Map of threads known healthy
    topicCreateInFlight, \* in-process Map: invocation creating the topic
    userLock,            \* invocation holding the user's lease
    telegram,            \* the platform: live threads, copies, challenges
    proc,                \* position and locals of each webhook invocation
    hist                 \* history of the run

flVars == <<users, threads, TOPIC_MAP, rateLimit, threadHealthCache,
            topicCreateInFlight, userLock, telegram, proc, hist>>

\* Part 4: one call of probeForumThread
VARIABLES
    pbPc,       \* position inside probeForumThread
    pbExpected, \* expectedThreadId
    pbDouble,   \* doubleCheckOnMissingThreadId
    pbFirst,    \* answer of the platform to the first sendMessage
    pbSecond,   \* answer of the platform to the second sendMessage
    pbStatus    \* status returned

pbVars == <<pbPc, pbExpected, pbDouble, pbFirst, pbSecond, pbStatus>>

\* Part 5: the lease RPCs of RateLimitDO called directly (one lock key)
VARIABLES
    lsNow,      \* Date.now()
    lsRow,      \* user_locks row of the lock key
    lsCall      \* the last RPC: arguments, row before and after, result

lsVars == <<lsNow, lsRow, lsCall>>

\* Part 6: acquireUserLock / releaseUserLock without a Durable Object (KV lock)
VARIABLES
    kvNow,       \* Date.now()
    kvLock,      \* TOPIC_MAP entry lock:<lockKey>:<userId>
    kvPc,        \* position of each caller of withUserLock
    kvToken,     \* ownerToken of each caller (0 = none)
    kvNextToken, \* source of fresh secureRandomId values
    kvDeadline,  \* acquireUserLock: deadline
    kvWake,      \* acquireUserLock: end of the current sleep
    kvPuts       \* TOPIC_MAP.put calls made by the current call of each caller

kvVars == <<kvNow, kvLock, kvPc, kvToken, kvNextToken, kvDeadline, kvWake, kvPuts>>

\* Part 7: one call of createTopic
VARIABLES
    tcPc,        \* position inside createTopicImpl
    tcRetries,   \* retries (from CONFIG.TOPIC_CREATE_VERIFY_MAX_RETRIES)
    tcAttempt,   \* attempt (loop variable)
    tcCalls,     \* createForumTopic calls issued so far
    tcNextId,    \* thread id the platform gives to the next topic
    tcThread,    \* threadId of the topic created in this attempt (0 = none)
    tcProbe,     \* result of the verify-after-create probe of this attempt
    tcLastError, \* lastError
    tcThrown,    \* error thrown to the caller ("" = none)
    tcFatalAt    \* tcCalls when a call failed with a permission / chat-not-found
                 \* description (0 = never)

tcVars == <<tcPc, tcRetries, tcAttempt, tcCalls, tcNextId, tcThread, tcProbe,
            tcLastError, tcThrown, tcFatalAt>>

\* Part 8: the pending list of a user's challenge
VARIABLES
    pqPresent,   \* chal:<verifyId> exists
    pqList,      \* state.pending_ids as stored in TOPIC_MAP
    pqNext,      \* message id of the next new private message
    pqW,         \* each invocation of sendVerificationChallenge: pc, message, list read
    pqLast,      \* last put: list read, message queued, list written
    pqReplay     \* message ids replayed by the last verification callback

pqVars == <<pqPresent, pqList, pqNext, pqW, pqLast, pqReplay>>

rlOthers == <<lkVars, flVars, pbVars, lsVars, kvVars, tcVars, pqVars>>
lkOthers == <<rlVars, flVars, pbVars, lsVars, kvVars, tcVars, pqVars>>
flOthers == <<rlVars, lkVars, pbVars, lsVars, kvVars, tcVars, pqVars>>
pbOthers == <<rlVars, lkVars, flVars, lsVars, kvVars, tcVars, pqVars>>
lsOthers == <<rlVars, lkVars, flVars, pbVars, kvVars, tcVars, pqVars>>
kvOthers == <<rlVars, lkVars, flVars, pbVars, lsVars, tcVars, pqVars>>
tcOthers == <<rlVars, lkVars, flVars, pbVars, lsVars, kvVars, pqVars>>
pqOthers == <<rlVars, lkVars, flVars, pbVars, lsVars, kvVars, tcVars>>
vars == <<rlVars, lkVars, flVars, pbVars, lsVars, kvVars, tcVars, pqVars>>

Min(a, b) == IF a < b THEN a ELSE b
Max(a, b) == IF a > b THEN a ELSE b

(***************************************************************************)
(* Part 1: RateLimitDO.check                                               *)
(***************************************************************************)
NoRow == [present |-> FALSE, count |-> 0, expires_at |-> 0]
NoCache == [present |-> FALSE, count |-> 0, expiresAt |-> 0]
NoBurst == [active |-> FALSE, start |-> 0, issued |-> 0, done |-> 0, allowed |-> 0]
NoResult == [allowed |-> FALSE, remaining |-> 0, valid |-> FALSE, at |-> 0,
             before |-> NoRow, after |-> NoRow]

(* The fast path of check stores a cache entry; the code stores the window  *)
(* end computed from the current call.                                      *)
FastPathCacheExpiry(cache, now, window) == now + (window * 1000)

(* check that, instead of refusing at the limit, starts the count again    *)
(* inside the window.                                                      *)
checkRestartingAtLimit(row, cache, now, limit, window) ==
    LET expiresAt == now + (window * 1000) IN
    IF cache.present /\ cache.expiresAt > now
    THEN IF cache.count >= limit
         THEN [row |-> IF row.present THEN [row EXCEPT !.count = 1] ELSE row,
               cache |-> [cache EXCEPT !.count = 1],
               allowed |-> TRUE, remaining |-> limit - 1]
         ELSE [row |-> IF row.present
                       THEN [row EXCEPT !.count = @ + 1]
                       ELSE [present |-> TRUE, count |-> cache.count + 1, expires_at |-> expiresAt],
               cache |-> [present |-> TRUE, count |-> cache.count + 1,
                          expiresAt |-> FastPathCacheExpiry(cache, now, window)],
               allowed |-> TRUE, remaining |-> limit - (cache.count + 1)]
    ELSE IF row.present /\ row.expires_at > now
    THEN IF row.count >= limit
         THEN [row |-> [row EXCEPT !.count = 1],
               cache |-> [present |-> TRUE, count |-> 1, expiresAt |-> row.expires_at],
               allowed |-> TRUE, remaining |-> limit - 1]
         ELSE [row |-> [row EXCEPT !.count = @ + 1],
               cache |-> [present |-> TRUE, count |-> row.count + 1, expiresAt |-> row.expires_at],
               allowed |-> TRUE, remaining |-> limit - (row.count + 1)]
    ELSE [row |-> [present |-> TRUE, count |-> 1, expires_at |-> expiresAt],
          cache |-> [present |-> TRUE, count |-> 1, expiresAt |-> expiresAt],
          allowed |-> TRUE, remaining |-> limit - 1]

(* RateLimitDO.check: result and new durable row / cache entry.            *)
check(row, cache, now, limit, window) ==
    LET expiresAt == now + (window * 1000) IN
    IF cache.present /\ cache.expiresAt > now
    THEN IF cache.count >= limit
         THEN [row |-> row, cache |-> cache, allowed |-> FALSE, remaining |-> 0]
         ELSE [row |-> IF row.present
                       THEN [row EXCEPT !.count = @ + 1]
                       ELSE [present |-> TRUE, count |-> cache.count + 1, expires_at |-> expiresAt],
               cache |-> [present |-> TRUE, count |-> cache.count + 1,
                          expiresAt |-> FastPathCacheExpiry(cache, now, window)],
               allowed |-> TRUE, remaining |-> limit - (cache.count + 1)]
    ELSE IF row.present /\ row.expires_at > now
    THEN IF row.count >= limit
         THEN [row |-> row,
               cache |-> [present |-> TRUE, count |-> row.count, expiresAt |-> row.expires_at],
               allowed |-> FALSE, remaining |-> 0]
         ELSE [row |-> [row EXCEPT !.count = @ + 1],
               cache |-> [present |-> TRUE, count |-> row.count + 1, expiresAt |-> row.expires_at],
               allowed |-> TRUE, remaining |-> limit - (row.count + 1)]
    ELSE [row |-> [present |-> TRUE, count |-> 1, expires_at |-> expiresAt],
          cache |-> [present |-> TRUE, count |-> 1, expiresAt |-> expiresAt],
          allowed |-> TRUE, remaining |-> limit - 1]

(* Errors of the stub.check call as checkRateLimit tells them apart.       *)
ErrorKinds == {"retryable", "overloaded", "other"}

NoAnswerYet == [allowed |-> FALSE, remaining |-> 0, threw |-> FALSE, log |-> ""]

(* checkRateLimit that refuses the request when the call throws.           *)
checkRateLimitFailClosed(res, limit) ==
    IF res.threw
    THEN [allowed |-> FALSE, remaining |-> 0, threw |-> TRUE,
          log |-> IF res.kind = "retryable" THEN "rate_limit_do_retryable_error"
                  ELSE IF res.kind = "overloaded" THEN "rate_limit_do_overloaded"
                  ELSE "rate_limit_do_call_failed"]
    ELSE [allowed |-> res.allowed, remaining |-> res.remaining, threw |-> FALSE,
          log |-> ""]

(* checkRateLimit with a Durable Object: the result of stub.check, or the  *)
(* answer of the catch block.                                              *)
checkRateLimit(res, limit) ==
    IF res.threw
    THEN [allowed |-> TRUE, remaining |-> limit, threw |-> TRUE,
          log |-> IF res.kind = "retryable" THEN "rate_limit_do_retryable_error"
                  ELSE IF res.kind = "overloaded" THEN "rate_limit_do_overloaded"
                  ELSE "rate_limit_do_call_failed"]
    ELSE [allowed |-> res.allowed, remaining |-> res.remaining, threw |-> FALSE,
          log |-> ""]

RLInit ==
    /\ rlNow = 0
    /\ rlLimit \in 1..RLMaxLimit
    /\ rlWindow \in 1..RLMaxWindow
    /\ rlRow = NoRow
    /\ rlCache = NoCache
    /\ rlPending = 0
    /\ rlBurst = NoBurst
    /\ rlLast = NoResult
    /\ rlCaller = NoAnswerYet

(* A caller issues a check call to the object (RPC in flight).             *)
RLIssue ==
    /\ rlPending < RLMaxPending
    /\ ~rlBurst.active
    /\ rlPending' = rlPending + 1
    /\ UNCHANGED <<rlNow, rlLimit, rlWindow, rlRow, rlCache, rlBurst, rlLast, rlCaller>>
    /\ UNCHANGED rlOthers

(* limit+k calls are issued together while the durable record of the key   *)
(* is absent or expired.                                                   *)
RLBeginBurst ==
    /\ ~rlBurst.active
    /\ rlPending = 0
    /\ ~(rlRow.present /\ rlRow.expires_at > rlNow)
    /\ \E k \in 1..2 :
          /\ rlPending' = rlLimit + k
          /\ rlBurst' = [active |-> TRUE, start |-> rlNow, issued |-> rlLimit + k,
                         done |-> 0, allowed |-> 0]
    /\ UNCHANGED <<rlNow, rlLimit, rlWindow, rlRow, rlCache, rlLast, rlCaller>>
    /\ UNCHANGED rlOthers

(* The object executes one queued call; check has no await, so it runs      *)
(* to completion before the next call starts.                              *)
RLCheck ==
    /\ rlPending > 0
    /\ LET r == check(rlRow, rlCache, rlNow, rlLimit, rlWindow) IN
          /\ rlRow' = r.row
          /\ rlCache' = r.cache
          /\ rlLast' = [allowed |-> r.allowed, remaining |-> r.remaining, valid |-> TRUE,
                        at |-> rlNow, before |-> rlRow, after |-> r.row]
          /\ rlBurst' = IF rlBurst.active
                        THEN [rlBurst EXCEPT !.done = @ + 1,
                                             !.allowed = @ + (IF r.allowed THEN 1 ELSE 0)]
                        ELSE rlBurst
          /\ rlCaller' = checkRateLimit([threw |-> FALSE, kind |-> "",
                                         allowed |-> r.allowed,
                                         remaining |-> r.remaining], rlLimit)
    /\ rlPending' = rlPending - 1
    /\ UNCHANGED <<rlNow, rlLimit, rlWindow>>
    /\ UNCHANGED rlOthers

(* stub.check throws (the object cannot be reached, is overloaded, or the  *)
(* call fails): nothing is executed by the object and checkRateLimit       *)
(* answers from its catch block.  Not part of a burst, whose calls all     *)
(* reach the object.                                                       *)
RLCheckThrows ==
    /\ rlPending > 0
    /\ ~rlBurst.active
    /\ \E kind \in ErrorKinds :
          rlCaller' = checkRateLimit([threw |-> TRUE, kind |-> kind,
                                      allowed |-> FALSE, remaining |-> 0], rlLimit)
    /\ rlPending' = rlPending - 1
    /\ UNCHANGED <<rlNow, rlLimit, rlWindow, rlRow, rlCache, rlBurst, rlLast>>
    /\ UNCHANGED rlOthers

(* The burst is over once all its calls have been answered.                *)
RLEndBurst ==
    /\ rlBurst.active
    /\ rlPending = 0
    /\ rlBurst' = NoBurst
    /\ UNCHANGED <<rlNow, rlLimit, rlWindow, rlRow, rlCache, rlPending, rlLast, rlCaller>>
    /\ UNCHANGED rlOthers

(* Time passes.  A burst stays within one window: the clock does not reach *)
(* the end of the window that starts with the burst.                       *)
RLTick ==
    /\ rlNow + TickMs <= RLMaxTime
    /\ rlBurst.active => rlNow + TickMs < rlBurst.start + (rlWindow * 1000)
    /\ rlNow' = rlNow + TickMs
    /\ UNCHANGED <<rlLimit, rlWindow, rlRow, rlCache, rlPending, rlBurst, rlLast, rlCaller>>
    /\ UNCHANGED rlOthers

(* The object is evicted from memory: the Map is lost, SQLite stays.       *)
RLEvict ==
    /\ rlCache.present
    /\ rlCache' = NoCache
    /\ UNCHANGED <<rlNow, rlLimit, rlWindow, rlRow, rlPending, rlBurst, rlLast, rlCaller>>
    /\ UNCHANGED rlOthers

(* RateLimitDO.cleanupExpired (rate_limits part).                          *)
cleanupExpired ==
    /\ rlRow' = IF rlRow.present /\ rlRow.expires_at < rlNow THEN NoRow ELSE rlRow
    /\ rlCache' = IF rlCache.present /\ rlCache.expiresAt < rlNow THEN NoCache ELSE rlCache
    /\ (rlRow' # rlRow \/ rlCache' # rlCache)
    /\ UNCHANGED <<rlNow, rlLimit, rlWindow, rlPending, rlBurst, rlLast, rlCaller>>
    /\ UNCHANGED rlOthers

(* RateLimitDO.reset(key), an administrative call, not part of a burst.    *)
reset ==
    /\ ~rlBurst.active
    /\ rlRow.present \/ rlCache.present
    /\ rlRow' = NoRow
    /\ rlCache' = NoCache
    /\ UNCHANGED <<rlNow, rlLimit, rlWindow, rlPending, rlBurst, rlLast, rlCaller>>
    /\ UNCHANGED rlOthers

RLNext ==
    \/ RLIssue
    \/ RLBeginBurst
    \/ RLCheck
    \/ RLCheckThrows
    \/ RLEndBurst
    \/ RLTick
    \/ RLEvict
    \/ cleanupExpired
    \/ reset

RLTypeOK ==
    /\ rlNow \in 0..RLMaxTime
    /\ rlRow.count \in Nat
    /\ rlCache.count \in Nat
    /\ rlPending \in Nat

(* C1: when limit+k (k>0) concurrent check calls for one key are issued    *)
(* within one window, starting from an absent or expired record, exactly   *)
(* limit of them are allowed and the other k are rejected.                 *)
C1_BurstAdmitsExactlyLimit ==
    (rlBurst.active /\ rlBurst.done = rlBurst.issued)
        => rlBurst.allowed = rlLimit

(* C18: a check that arrives at or after the expires_at of the stored      *)
(* record starts a new window: count = 1, expires_at = now + window        *)
(* seconds, allowed, remaining = limit - 1, with or without a cache entry. *)
C18_ExpiredWindowRestarts ==
    (/\ rlLast.valid
     /\ rlLast.before.present
     /\ rlLast.before.expires_at <= rlLast.at)
        => /\ rlLast.allowed
           /\ rlLast.remaining = rlLimit - 1
           /\ rlLast.after = [present |-> TRUE, count |-> 1,
                              expires_at |-> rlLast.at + (rlWindow * 1000)]

(* What check answers from the durable record alone (no cache entry).      *)
FromDurableRecord(row, now, limit, window) ==
    LET r == check(row, NoCache, now, limit, window)
    IN  [allowed |-> r.allowed, remaining |-> r.remaining]

(* C19: every result of check equals the result computed from the durable  *)
(* record alone, so losing the cache before a call never changes its       *)
(* answer.                                                                 *)
C19_CacheNeverChangesResult ==
    rlLast.valid
        => [allowed |-> rlLast.allowed, remaining |-> rlLast.remaining]
              = FromDurableRecord(rlLast.before, rlLast.at, rlLimit, rlWindow)

(* C20: while a record stays stored its count never goes down, except when *)
(* a check made at or after its expires_at starts a new window, which sets *)
(* count to 1 and expires_at to now + window seconds.                      *)
C20_CountOnlyGrowsWithinWindow ==
    [][(rlRow.present /\ rlRow'.present)
          => \/ /\ rlRow'.count >= rlRow.count
                /\ rlRow'.count > rlRow.count => rlRow'.count = rlRow.count + 1
             \/ /\ rlRow.expires_at <= rlNow
                /\ rlRow'.count = 1
                /\ rlRow'.expires_at = rlNow + (rlWindow * 1000)]_vars

(* A check has replaced an expired record of count 2 or more by a new      *)
(* window of count 1.                                                      *)
C20_Witness ==
    /\ rlLast.valid
    /\ rlLast.before.present
    /\ rlLast.before.count >= 2
    /\ rlLast.before.expires_at <= rlLast.at
    /\ rlLast.after.count = 1
    /\ rlRow = rlLast.after

(* C21: a check that finds count >= limit in a record whose window has not *)
(* expired answers allowed = false, remaining = 0 and leaves the record    *)
(* (count and expires_at) as it was.                                       *)
C21_RefusalLeavesRecord ==
    (/\ rlLast.valid
     /\ rlLast.before.present
     /\ rlLast.before.expires_at > rlLast.at
     /\ rlLast.before.count >= rlLimit)
        => /\ ~rlLast.allowed
           /\ rlLast.remaining = 0
           /\ rlLast.after = rlLast.before

(* A check was refused at a limit of 2 or more inside the window of the    *)
(* record, which still stands as it was.                                   *)
C21_Witness ==
    /\ rlLast.valid
    /\ rlLast.before.present
    /\ rlLast.before.expires_at > rlLast.at
    /\ rlLast.before.count >= rlLimit
    /\ ~rlLast.allowed
    /\ rlRow = rlLast.before
    /\ rlLimit >= 2

(* C22: when stub.check throws, checkRateLimit logs the failure and        *)
(* answers allowed = true; the error does not reach the caller and the     *)
(* request is not refused.                                                 *)
C22_FailOpenAndLogged ==
    rlCaller.threw
        => /\ rlCaller.allowed
           /\ rlCaller.remaining = rlLimit
           /\ rlCaller.log \in {"rate_limit_do_retryable_error",
                                "rate_limit_do_overloaded",
                                "rate_limit_do_call_failed"}

(* The call threw while the record of the key stood at its limit inside    *)
(* its window: the request was let through.                                *)
C22_Witness ==
    /\ rlCaller.threw
    /\ rlCaller.allowed
    /\ rlRow.present
    /\ rlRow.expires_at > rlNow
    /\ rlRow.count >= rlLimit

(***************************************************************************)
(* Part 2: lease lock service (RateLimitDO.acquireLock / renewLock /       *)
(* releaseLock) and its callers (withUserLock, runWithUserLock,            *)
(* handlePrivateMessage, handleCallbackQuery).  One user, one lock key.    *)
(***************************************************************************)
LKMaxTime == 4000
LKMaxRpcFail == 2
LKMaxEffects == 1
LKMaxRuns == 1

Clients == {"c1", "c2"}
Kinds == {"message", "callback"}

(* Lock configurations passed to withUserLock (0 = field not set).         *)
LockConfigs ==
    { [ttlMs |-> 3000, acquireTimeoutMs |-> 2000, retryIntervalMs |-> 1000,
       heartbeatIntervalMs |-> 1000],
      [ttlMs |-> 1000, acquireTimeoutMs |-> 2000, retryIntervalMs |-> 1000,
       heartbeatIntervalMs |-> 1000] }

NoLock == [present |-> FALSE, owner_token |-> 0, expires_at |-> 0]
NoGrant == [valid |-> FALSE, expiresAt |-> 0]
HbOff == [state |-> "off", wakeAt |-> 0]

OrDefault(v, d) == IF v = 0 THEN d ELSE v

(* normalizeLockConfig                                                     *)
normalizeLockConfig(config) ==
    [ttlMs |-> OrDefault(config.ttlMs, 15000),
     acquireTimeoutMs |-> OrDefault(config.acquireTimeoutMs, 6000),
     retryIntervalMs |-> OrDefault(config.retryIntervalMs, 120),
     heartbeatIntervalMs |-> OrDefault(config.heartbeatIntervalMs, 5000)]

(* acquireLock that grants the lease without looking at the current       *)
(* holder (used to validate C2).                                           *)
acquireLockIgnoringHolder(row, ownerToken, ttlMs, now) ==
    LET ttl == Max(1000, OrDefault(ttlMs, 15000))
        nextExpiresAt == now + ttl
    IN [row |-> [present |-> TRUE, owner_token |-> ownerToken,
                 expires_at |-> nextExpiresAt],
        acquired |-> TRUE, retryAfterMs |-> 0, expiresAt |-> nextExpiresAt]

(* acquireLock that never supersedes the lease of another owner.           *)
acquireLockNeverSuperseding(row, ownerToken, ttlMs, now) ==
    LET ttl == Max(1000, OrDefault(ttlMs, 15000))
        nextExpiresAt == now + ttl
    IN IF row.present /\ row.owner_token # ownerToken
       THEN [row |-> row, acquired |-> FALSE,
             retryAfterMs |-> Max(50, row.expires_at - now), expiresAt |-> 0]
       ELSE [row |-> [present |-> TRUE, owner_token |-> ownerToken,
                      expires_at |-> nextExpiresAt],
             acquired |-> TRUE, retryAfterMs |-> 0, expiresAt |-> nextExpiresAt]

(* RateLimitDO.acquireLock                                                 *)
acquireLock(row, ownerToken, ttlMs, now) ==
    LET ttl == Max(1000, OrDefault(ttlMs, 15000))
        nextExpiresAt == now + ttl
    IN IF row.present /\ row.expires_at > now /\ row.owner_token # ownerToken
       THEN [row |-> row, acquired |-> FALSE,
             retryAfterMs |-> Max(50, row.expires_at - now), expiresAt |-> 0]
       ELSE [row |-> [present |-> TRUE, owner_token |-> ownerToken,
                      expires_at |-> nextExpiresAt],
             acquired |-> TRUE, retryAfterMs |-> 0, expiresAt |-> nextExpiresAt]

(* RateLimitDO.releaseLock                                                 *)
releaseLock(row, ownerToken) ==
    IF row.present /\ row.owner_token = ownerToken
    THEN [row |-> NoLock, released |-> TRUE]
    ELSE [row |-> row, released |-> FALSE]

(* renewLock that does not compare the owner token.                        *)
renewLockAnyOwner(row, ownerToken, ttlMs, now) ==
    LET ttl == Max(1000, OrDefault(ttlMs, 15000))
        nextExpiresAt == now + ttl
    IN IF ~row.present \/ row.expires_at <= now
       THEN [row |-> row, renewed |-> FALSE, expiresAt |-> 0]
       ELSE [row |-> [row EXCEPT !.expires_at = nextExpiresAt],
             renewed |-> TRUE, expiresAt |-> nextExpiresAt]

(* RateLimitDO.renewLock                                                   *)
renewLock(row, ownerToken, ttlMs, now) ==
    LET ttl == Max(1000, OrDefault(ttlMs, 15000))
        nextExpiresAt == now + ttl
    IN IF ~row.present \/ row.owner_token # ownerToken \/ row.expires_at <= now
       THEN [row |-> row, renewed |-> FALSE, expiresAt |-> 0]
       ELSE [row |-> [row EXCEPT !.expires_at = nextExpiresAt],
             renewed |-> TRUE, expiresAt |-> nextExpiresAt]

(* withUserLock: heartbeat interval                                        *)
intervalMs(cfg) ==
    Max(1000, Min(cfg.heartbeatIntervalMs, cfg.ttlMs \div 2))

(* acquireUserLock: wait between two attempts                              *)
waitMs(cfg, retryAfterMs) ==
    Max(40, Min(cfg.retryIntervalMs, OrDefault(retryAfterMs, cfg.retryIntervalMs)))

LKInit ==
    /\ lkNow = 0
    /\ lkCfg \in LockConfigs
    /\ lkRow = NoLock
    /\ lkPc = [c \in Clients |-> "idle"]
    /\ lkKind = [c \in Clients |-> "message"]
    /\ lkToken = [c \in Clients |-> 0]
    /\ lkNextToken = 1
    /\ lkDeadline = [c \in Clients |-> 0]
    /\ lkWake = [c \in Clients |-> 0]
    /\ lkHb = [c \in Clients |-> HbOff]
    /\ lkStop = [c \in Clients |-> FALSE]
    /\ lkHbErr = [c \in Clients |-> FALSE]
    /\ lkFn = [c \in Clients |-> "none"]
    /\ lkOutcome = [c \in Clients |-> "none"]
    /\ lkGrant = [c \in Clients |-> NoGrant]
    /\ lkEffects = [c \in Clients |-> 0]
    /\ lkLate = [c \in Clients |-> 0]
    /\ lkRuns = [c \in Clients |-> 0]
    /\ lkRpcFail = 0

Cfg == normalizeLockConfig(lkCfg)

(* The pipeline of invocation c is executing (fn() of withUserLock, the     *)
(* unlocked fallback of runWithUserLock, or the replay of a callback).     *)
InPipeline(c) == lkPc[c] \in {"running", "unlocked"}

(* Invocation c holds the lease of the user right now.                     *)
HoldsLease(c) ==
    /\ lkRow.present
    /\ lkToken[c] # 0
    /\ lkRow.owner_token = lkToken[c]
    /\ lkRow.expires_at > lkNow

(* handlePrivateMessage: a private message arrives; withUserLock starts    *)
(* acquireUserLock with a fresh owner token.                               *)
handlePrivateMessage(c) ==
    /\ lkPc[c] = "idle"
    /\ lkRuns[c] < LKMaxRuns
    /\ lkPc' = [lkPc EXCEPT ![c] = "acquire"]
    /\ lkKind' = [lkKind EXCEPT ![c] = "message"]
    /\ lkToken' = [lkToken EXCEPT ![c] = lkNextToken]
    /\ lkNextToken' = lkNextToken + 1
    /\ lkDeadline' = [lkDeadline EXCEPT ![c] = lkNow + Cfg.acquireTimeoutMs]
    /\ lkHb' = [lkHb EXCEPT ![c] = HbOff]
    /\ lkStop' = [lkStop EXCEPT ![c] = FALSE]
    /\ lkHbErr' = [lkHbErr EXCEPT ![c] = FALSE]
    /\ lkFn' = [lkFn EXCEPT ![c] = "none"]
    /\ lkOutcome' = [lkOutcome EXCEPT ![c] = "none"]
    /\ lkEffects' = [lkEffects EXCEPT ![c] = 0]
    /\ lkLate' = [lkLate EXCEPT ![c] = 0]
    /\ UNCHANGED <<lkNow, lkCfg, lkRow, lkWake, lkGrant, lkRuns, lkRpcFail>>
    /\ UNCHANGED lkOthers

(* handleCallbackQuery: a verification callback arrives; the replay calls  *)
(* forwardToTopic directly.                                                *)
handleCallbackQuery(c) ==
    /\ lkPc[c] = "idle"
    /\ lkRuns[c] < LKMaxRuns
    /\ lkPc' = [lkPc EXCEPT ![c] = "unlocked"]
    /\ lkKind' = [lkKind EXCEPT ![c] = "callback"]
    /\ lkToken' = [lkToken EXCEPT ![c] = 0]
    /\ lkHb' = [lkHb EXCEPT ![c] = HbOff]
    /\ lkStop' = [lkStop EXCEPT ![c] = FALSE]
    /\ lkHbErr' = [lkHbErr EXCEPT ![c] = FALSE]
    /\ lkFn' = [lkFn EXCEPT ![c] = "none"]
    /\ lkOutcome' = [lkOutcome EXCEPT ![c] = "none"]
    /\ lkEffects' = [lkEffects EXCEPT ![c] = 0]
    /\ lkLate' = [lkLate EXCEPT ![c] = 0]
    /\ lkRuns' = [lkRuns EXCEPT ![c] = @ + 1]
    /\ UNCHANGED <<lkNow, lkCfg, lkRow, lkNextToken, lkDeadline, lkWake, lkGrant, lkRpcFail>>
    /\ UNCHANGED lkOthers

(* acquireUserLock: one pass of the while loop with a Durable Object.      *)
acquireUserLock(c) ==
    /\ lkPc[c] = "acquire"
    /\ IF lkNow < lkDeadline[c]
       THEN LET r == acquireLock(lkRow, lkToken[c], Cfg.ttlMs, lkNow) IN
            /\ lkRow' = r.row
            /\ IF r.acquired
               THEN /\ lkPc' = [lkPc EXCEPT ![c] = "running"]
                    /\ lkGrant' = [lkGrant EXCEPT ![c] = [valid |-> TRUE, expiresAt |-> r.expiresAt]]
                    /\ lkHb' = [lkHb EXCEPT ![c] = [state |-> "sleeping",
                                                    wakeAt |-> lkNow + intervalMs(Cfg)]]
                    /\ lkRuns' = [lkRuns EXCEPT ![c] = @ + 1]
                    /\ UNCHANGED <<lkWake, lkOutcome>>
               ELSE /\ lkPc' = [lkPc EXCEPT ![c] = "sleep"]
                    /\ lkWake' = [lkWake EXCEPT ![c] = lkNow + waitMs(Cfg, r.retryAfterMs)]
                    /\ UNCHANGED <<lkGrant, lkHb, lkRuns, lkOutcome>>
       ELSE \* UserLockTimeoutError: handlePrivateMessageImpl answers "try later"
            /\ lkPc' = [lkPc EXCEPT ![c] = "idle"]
            /\ lkOutcome' = [lkOutcome EXCEPT ![c] = "busy_reply"]
            /\ lkRuns' = [lkRuns EXCEPT ![c] = @ + 1]
            /\ UNCHANGED <<lkRow, lkGrant, lkHb, lkWake>>
    /\ UNCHANGED <<lkNow, lkCfg, lkKind, lkToken, lkNextToken, lkDeadline, lkStop,
                   lkHbErr, lkFn, lkEffects, lkLate, lkRpcFail>>
    /\ UNCHANGED lkOthers

(* acquireUserLock: the acquireLock RPC throws; withUserLock rejects with  *)
(* that error and runWithUserLock falls back to running fn() unlocked.     *)
acquireRpcThrows(c) ==
    /\ lkPc[c] = "acquire"
    /\ lkNow < lkDeadline[c]
    /\ lkRpcFail < LKMaxRpcFail
    /\ lkRpcFail' = lkRpcFail + 1
    /\ lkPc' = [lkPc EXCEPT ![c] = "unlocked"]
    /\ lkRuns' = [lkRuns EXCEPT ![c] = @ + 1]
    /\ UNCHANGED <<lkNow, lkCfg, lkRow, lkKind, lkToken, lkNextToken, lkDeadline, lkWake,
                   lkHb, lkStop, lkHbErr, lkFn, lkOutcome, lkGrant, lkEffects, lkLate>>
    /\ UNCHANGED lkOthers

(* acquireUserLock: sleep(waitMs) is over.                                 *)
acquireWake(c) ==
    /\ lkPc[c] = "sleep"
    /\ lkNow >= lkWake[c]
    /\ lkPc' = [lkPc EXCEPT ![c] = "acquire"]
    /\ UNCHANGED <<lkNow, lkCfg, lkRow, lkKind, lkToken, lkNextToken, lkDeadline, lkWake,
                   lkHb, lkStop, lkHbErr, lkFn, lkOutcome, lkGrant, lkEffects, lkLate,
                   lkRuns, lkRpcFail>>
    /\ UNCHANGED lkOthers

(* The pipeline performs one externally visible side effect (message copy, *)
(* thread creation, state write).                                          *)
pipelineEffect(c) ==
    /\ InPipeline(c)
    /\ lkEffects[c] < LKMaxEffects
    /\ lkEffects' = [lkEffects EXCEPT ![c] = @ + 1]
    /\ lkLate' = [lkLate EXCEPT ![c] = IF lkHbErr[c] /\ lkPc[c] = "running" THEN @ + 1 ELSE @]
    /\ UNCHANGED <<lkNow, lkCfg, lkRow, lkPc, lkKind, lkToken, lkNextToken, lkDeadline,
                   lkWake, lkHb, lkStop, lkHbErr, lkFn, lkOutcome, lkGrant, lkRuns, lkRpcFail>>
    /\ UNCHANGED lkOthers

(* withUserLock: fn() settles; finally sets stopHeartbeat and awaits the   *)
(* heartbeat coroutine.                                                    *)
fnSettles(c) ==
    /\ lkPc[c] = "running"
    /\ \E res \in {"returned", "threw"} :
          lkFn' = [lkFn EXCEPT ![c] = res]
    /\ lkPc' = [lkPc EXCEPT ![c] = "joining"]
    /\ lkStop' = [lkStop EXCEPT ![c] = TRUE]
    /\ UNCHANGED <<lkNow, lkCfg, lkRow, lkKind, lkToken, lkNextToken, lkDeadline, lkWake,
                   lkHb, lkHbErr, lkOutcome, lkGrant, lkEffects, lkLate, lkRuns, lkRpcFail>>
    /\ UNCHANGED lkOthers

(* withUserLock: the heartbeat coroutine wakes from sleep(intervalMs).     *)
heartbeat(c) ==
    /\ lkHb[c].state = "sleeping"
    /\ lkNow >= lkHb[c].wakeAt
    /\ IF lkStop[c]
       THEN /\ lkHb' = [lkHb EXCEPT ![c] = [state |-> "exited", wakeAt |-> 0]]
            /\ UNCHANGED <<lkRow, lkGrant, lkHbErr, lkStop>>
       ELSE LET r == renewLock(lkRow, lkToken[c], Cfg.ttlMs, lkNow) IN
            /\ lkRow' = r.row
            /\ IF r.renewed
               THEN /\ lkHb' = [lkHb EXCEPT ![c] = [state |-> "sleeping",
                                                    wakeAt |-> lkNow + intervalMs(Cfg)]]
                    /\ lkGrant' = [lkGrant EXCEPT ![c] = [valid |-> TRUE, expiresAt |-> r.expiresAt]]
                    /\ UNCHANGED <<lkHbErr, lkStop>>
               ELSE /\ lkHbErr' = [lkHbErr EXCEPT ![c] = TRUE]
                    /\ lkStop' = [lkStop EXCEPT ![c] = TRUE]
                    /\ lkHb' = [lkHb EXCEPT ![c] = [state |-> "exited", wakeAt |-> 0]]
                    /\ UNCHANGED lkGrant
    /\ UNCHANGED <<lkNow, lkCfg, lkPc, lkKind, lkToken, lkNextToken, lkDeadline, lkWake,
                   lkFn, lkOutcome, lkEffects, lkLate, lkRuns, lkRpcFail>>
    /\ UNCHANGED lkOthers

(* withUserLock: the renewLock RPC throws; the error is only logged and    *)
(* the loop goes on.                                                       *)
heartbeatRpcThrows(c) ==
    /\ lkHb[c].state = "sleeping"
    /\ lkNow >= lkHb[c].wakeAt
    /\ ~lkStop[c]
    /\ lkRpcFail < LKMaxRpcFail
    /\ lkRpcFail' = lkRpcFail + 1
    /\ lkHb' = [lkHb EXCEPT ![c] = [state |-> "sleeping", wakeAt |-> lkNow + intervalMs(Cfg)]]
    /\ UNCHANGED <<lkNow, lkCfg, lkRow, lkPc, lkKind, lkToken, lkNextToken, lkDeadline,
                   lkWake, lkStop, lkHbErr, lkFn, lkOutcome, lkGrant, lkEffects, lkLate, lkRuns>>
    /\ UNCHANGED lkOthers

(* How runWithUserLock / handlePrivateMessageImpl continue after           *)
(* withUserLock settled: "rerun" = fallback fn() without the lock.         *)
AfterWithUserLock(fnResult, hbErr, releaseThrew) ==
    IF releaseThrew THEN "rerun"
    ELSE IF fnResult = "threw" THEN "rerun"
    ELSE IF hbErr THEN "busy_reply"
    ELSE "ok"

(* withUserLock: finally block after the heartbeat has exited:             *)
(* releaseUserLock, then the result goes to runWithUserLock.               *)
releaseUserLock(c) ==
    /\ lkPc[c] = "joining"
    /\ lkHb[c].state = "exited"
    /\ \E threw \in {FALSE, TRUE} :
          /\ threw => lkRpcFail < LKMaxRpcFail
          /\ lkRpcFail' = IF threw THEN lkRpcFail + 1 ELSE lkRpcFail
          /\ lkRow' = IF threw THEN lkRow ELSE releaseLock(lkRow, lkToken[c]).row
          /\ lkGrant' = [lkGrant EXCEPT ![c] = IF threw THEN @ ELSE NoGrant]
          /\ LET next == AfterWithUserLock(lkFn[c], lkHbErr[c], threw) IN
                IF next = "rerun"
                THEN /\ lkPc' = [lkPc EXCEPT ![c] = "unlocked"]
                     /\ UNCHANGED lkOutcome
                ELSE /\ lkPc' = [lkPc EXCEPT ![c] = "idle"]
                     /\ lkOutcome' = [lkOutcome EXCEPT ![c] = next]
    /\ UNCHANGED <<lkNow, lkCfg, lkKind, lkToken, lkNextToken, lkDeadline, lkWake, lkHb,
                   lkStop, lkHbErr, lkFn, lkEffects, lkLate, lkRuns>>
    /\ UNCHANGED lkOthers

(* The pipeline run without the lock settles.                              *)
unlockedSettles(c) ==
    /\ lkPc[c] = "unlocked"
    /\ \E res \in {"ok", "error"} :
          lkOutcome' = [lkOutcome EXCEPT ![c] = res]
    /\ lkPc' = [lkPc EXCEPT ![c] = "idle"]
    /\ UNCHANGED <<lkNow, lkCfg, lkRow, lkKind, lkToken, lkNextToken, lkDeadline, lkWake,
                   lkHb, lkStop, lkHbErr, lkFn, lkGrant, lkEffects, lkLate, lkRuns, lkRpcFail>>
    /\ UNCHANGED lkOthers

(* RateLimitDO.cleanupExpired (user_locks part).                           *)
cleanupExpiredLocks ==
    /\ lkRow.present
    /\ lkRow.expires_at < lkNow
    /\ lkRow' = NoLock
    /\ UNCHANGED <<lkNow, lkCfg, lkPc, lkKind, lkToken, lkNextToken, lkDeadline, lkWake,
                   lkHb, lkStop, lkHbErr, lkFn, lkOutcome, lkGrant, lkEffects, lkLate,
                   lkRuns, lkRpcFail>>
    /\ UNCHANGED lkOthers

(* Time passes; timers that are due fire before the clock moves on.        *)
LKTick ==
    /\ lkNow + TickMs <= LKMaxTime
    /\ \A c \in Clients :
          /\ lkPc[c] # "acquire"
          /\ lkPc[c] = "sleep" => lkWake[c] > lkNow
          /\ lkHb[c].state = "sleeping" => lkHb[c].wakeAt > lkNow
    /\ lkNow' = lkNow + TickMs
    /\ UNCHANGED <<lkCfg, lkRow, lkPc, lkKind, lkToken, lkNextToken, lkDeadline, lkWake,
                   lkHb, lkStop, lkHbErr, lkFn, lkOutcome, lkGrant, lkEffects, lkLate,
                   lkRuns, lkRpcFail>>
    /\ UNCHANGED lkOthers

LKNext ==
    \/ \E c \in Clients : handlePrivateMessage(c)
    \/ \E c \in Clients : handleCallbackQuery(c)
    \/ \E c \in Clients : acquireUserLock(c)
    \/ \E c \in Clients : acquireRpcThrows(c)
    \/ \E c \in Clients : acquireWake(c)
    \/ \E c \in Clients : pipelineEffect(c)
    \/ \E c \in Clients : fnSettles(c)
    \/ \E c \in Clients : heartbeat(c)
    \/ \E c \in Clients : heartbeatRpcThrows(c)
    \/ \E c \in Clients : releaseUserLock(c)
    \/ \E c \in Clients : unlockedSettles(c)
    \/ cleanupExpiredLocks
    \/ LKTick

(* C2: at any instant at most one owner token holds an unexpired lease;    *)
(* two acquireLock calls with distinct tokens are never both granted.      *)
C2_AtMostOneUnexpiredLease ==
    \A c1, c2 \in Clients :
        ( /\ lkGrant[c1].valid /\ lkGrant[c1].expiresAt > lkNow
          /\ lkGrant[c2].valid /\ lkGrant[c2].expiresAt > lkNow )
        => c1 = c2

(* C2 witness: one invocation holds an unexpired lease while another one,  *)
(* with a different owner token, has just been refused by acquireLock.     *)
C2_Witness ==
    \E c1, c2 \in Clients :
        /\ c1 # c2
        /\ lkGrant[c1].valid /\ lkGrant[c1].expiresAt > lkNow
        /\ lkPc[c2] = "sleep"
        /\ lkToken[c2] # lkToken[c1]

(* C3: critical sections run through withUserLock never overlap.           *)
C3_CriticalSectionsNeverOverlap ==
    \A c1, c2 \in Clients :
        (lkPc[c1] = "running" /\ lkPc[c2] = "running") => c1 = c2

(* C4: the pipeline runs for a user only while that user's lease is held   *)
(* by the invocation running it.                                           *)
C4_PipelineOnlyUnderLease ==
    \A c \in Clients : InPipeline(c) => HoldsLease(c)

(* C5: after a rejected renewal the critical section performs no further   *)
(* externally visible side effect.                                         *)
C5_NoSideEffectAfterRejectedRenewal ==
    \A c \in Clients : lkLate[c] = 0

(* fn() of invocation c has settled once and is being run again, by the    *)
(* fallback of runWithUserLock.                                            *)
RunsAgain(c) ==
    /\ lkKind[c] = "message"
    /\ lkPc[c] = "unlocked"
    /\ lkFn[c] # "none"

(* C30: for one inbound private message the pipeline function is run at    *)
(* most once: after fn() has settled, by returning or by throwing, it is   *)
(* not started a second time.                                              *)
C30_PipelineRunsAtMostOnce ==
    \A c \in Clients : ~RunsAgain(c)

(* C34: a lease withUserLock has acquired is released when the critical    *)
(* section ends, whether fn() returns or throws: once withUserLock of      *)
(* invocation c has settled, the lease of c is no longer held.             *)
C34_LeaseReleasedAfterSection ==
    \A c \in Clients : lkPc[c] \in {"idle", "unlocked"} => ~HoldsLease(c)

(* C36: acquireUserLock of invocation c ends in one of two ways, with the  *)
(* lease or with UserLockTimeoutError (answered as busy_reply); it starts  *)
(* an attempt only before its deadline, and between two attempts it waits  *)
(* a non-zero time of at most max(40, retryIntervalMs).                    *)
C36_AcquireEndsWithLeaseOrTimeout ==
    [][\A c \in Clients :
          (lkPc[c] = "acquire" /\ lkPc'[c] # "acquire")
             => \/ /\ lkPc'[c] = "running"
                   /\ lkNow < lkDeadline[c]
                   /\ HoldsLease(c)'
                \/ /\ lkPc'[c] = "sleep"
                   /\ lkNow < lkDeadline[c]
                   /\ lkWake'[c] - lkNow >= 40
                   /\ lkWake'[c] - lkNow <= Max(40, Cfg.retryIntervalMs)
                \/ /\ lkPc'[c] = "idle"
                   /\ lkNow >= lkDeadline[c]
                   /\ lkOutcome'[c] = "busy_reply"
                   /\ lkRow' = lkRow]_vars

(* C37: for every lock configuration the heartbeat interval is at most     *)
(* half the TTL the lease is granted with, so the lease of a critical      *)
(* section that is running, and of which no renewal was rejected or        *)
(* failed, has not expired.                                                *)
C37_HeartbeatWithinHalfTtl ==
    /\ 2 * intervalMs(Cfg) <= Max(1000, Cfg.ttlMs)
    /\ \A c \in Clients :
          (lkPc[c] = "running" /\ ~lkHbErr[c] /\ lkRpcFail = 0)
             => HoldsLease(c)

(***************************************************************************)
(* Part 3.  The self-healing router: forwardToTopic, the verification      *)
(* challenge, the completion callback with its replay of pending messages, *)
(* topic creation and the Lost transition                                  *)
(* (resetUserVerificationAndRequireReverify).                              *)
(*                                                                         *)
(* One user, D1 mode (the webhook refuses to run without TG_BOT_DB), one   *)
(* isolate.  An invocation moves from one await to the next in one step;   *)
(* steps of different invocations interleave.  KV and D1 are modelled as   *)
(* consistent stores and no TTL runs out during a run.                     *)
(***************************************************************************)
(* Webhook updates delivered in a run: private messages, button presses   *)
(* and /cleanup commands.                                                  *)
FLMaxUpdates == 3
(* Disturbances of a run: topics deleted by an administrator and platform *)
(* calls failing for unrelated reasons.                                    *)
FLMaxEvents == 1
(* Messages of a run whose text matches a filter keyword.                  *)
FLMaxKeyword == 1

RATE_LIMIT_MESSAGE == 45
RATE_LIMIT_VERIFY == 3
PENDING_MAX_MESSAGES == 10

Procs == {"p1", "p2"}
(* The isolates the platform runs invocations in: each has its own         *)
(* module-level topicCreateInFlight Map.                                   *)
Isolates == {1, 2}
Msgs == 1 .. FLMaxUpdates
(* Every challenge passes the verify rate limit, so a run creates at most  *)
(* RATE_LIMIT_VERIFY of them.                                              *)
Vids == 1 .. RATE_LIMIT_VERIFY
GeneralThreadId == 1
FirstThreadId == 2

NoChal == [present |-> FALSE, pending_ids |-> <<>>]

(* The reason handed to resetUserVerificationAndRequireReverify: the call  *)
(* site and, where the code appends it, the probe status.                  *)
NoReason == [site |-> "", status |-> ""]

Idle == [pc |-> "idle", kind |-> "none", msg |-> 0, vid |-> 0,
         pend |-> <<>>, locked |-> FALSE, rerun |-> FALSE, rec |-> 0,
         landed |-> FALSE, old |-> 0, pmsg |-> 0, st |-> <<>>,
         inReset |-> FALSE, reason |-> NoReason, ack |-> 0, probe |-> "",
         iso |-> 1]

InSeq(x, s) == \E i \in 1 .. Len(s) : s[i] = x

(* Trim that keeps the oldest entries.                                     *)
TrimPendingKeepOldest(s) ==
    IF Len(s) > PENDING_MAX_MESSAGES THEN SubSeq(s, 1, PENDING_MAX_MESSAGES) ELSE s

(* pendingIds.slice(pendingIds.length - CONFIG.PENDING_MAX_MESSAGES)       *)
TrimPending(s) ==
    IF Len(s) > PENDING_MAX_MESSAGES
    THEN SubSeq(s, Len(s) - PENDING_MAX_MESSAGES + 1, Len(s))
    ELSE s

(* ---- Telegram ---------------------------------------------------------- *)
(* A Bot API response as tgCall returns it: ok, description, and the       *)
(* message_thread_id of the result (0 = the result carries none).          *)
TgOk(t) == [ok |-> TRUE, description |-> "", thread |-> t]
TgErr(d) == [ok |-> FALSE, description |-> d, thread |-> 0]

isTopicMissingOrDeleted(description) == description = "thread not found"
isTestMessageInvalid(description) == description = "message text is empty"

(* A classification that accepts every acknowledged send.                  *)
attemptOnceTrustingAck(res, expectedThreadId) ==
    IF ~res.ok
    THEN IF isTopicMissingOrDeleted(res.description) THEN "missing"
         ELSE IF isTestMessageInvalid(res.description) THEN "probe_invalid"
         ELSE "unknown_error"
    ELSE IF res.thread = 0 THEN "missing_thread_id"
    ELSE "ok"

(* probeForumThread.attemptOnce: classification of one sendMessage.        *)
attemptOnce(res, expectedThreadId) ==
    IF ~res.ok
    THEN IF isTopicMissingOrDeleted(res.description) THEN "missing"
         ELSE IF isTestMessageInvalid(res.description) THEN "probe_invalid"
         ELSE "unknown_error"
    ELSE IF res.thread = 0 THEN "missing_thread_id"
    ELSE IF res.thread # expectedThreadId THEN "redirected"
    ELSE "ok"

(* What sendMessage into thread t can answer.  A live thread answers with  *)
(* its own id; a deleted one is refused, or the message lands in General   *)
(* (with General's id, or with no thread id).  With faulty = TRUE the      *)
(* platform may also fail for a reason unrelated to the thread.            *)
SendResponses(t, faulty) ==
    (IF t \in telegram.live
     THEN {TgOk(t)}
     ELSE {TgErr("thread not found"), TgOk(GeneralThreadId), TgOk(0)})
    \cup (IF faulty
          THEN {TgErr("too many requests"), TgErr("message text is empty")}
          ELSE {})

(* probeForumThread needs a second attempt: the first one has no thread id *)
(* and doubleCheckOnMissingThreadId is set.                                *)
needsSecond(first, expectedThreadId, doubleCheck) ==
    attemptOnce(first, expectedThreadId) = "missing_thread_id" /\ doubleCheck

(* The status probeForumThread returns when the platform answers the first *)
(* sendMessage with `first` and the second one, if made, with `second`.    *)
probeStatus(first, second, expectedThreadId, doubleCheck) ==
    IF needsSecond(first, expectedThreadId, doubleCheck)
    THEN attemptOnce(second, expectedThreadId)
    ELSE attemptOnce(first, expectedThreadId)

(* probeForumThread: the statuses a probe of thread t can return.          *)
probeForumThread(t, doubleCheck, faulty) ==
    {probeStatus(first, second, t, doubleCheck) :
        first \in SendResponses(t, faulty), second \in SendResponses(t, faulty)}

(* What copyMessage into thread t can answer.  The copy into a live thread *)
(* is reported with the thread id or with the bare message id.             *)
CopyResponses(t, faulty) ==
    (IF t \in telegram.live
     THEN {TgOk(t), TgOk(0)}
     ELSE {TgErr("thread not found"), TgOk(GeneralThreadId), TgOk(0)})
    \cup (IF faulty THEN {TgErr("too many requests")} ELSE {})

FaultStatuses == {"unknown_error", "probe_invalid"}

CanDisturb == hist.events < FLMaxEvents

CanFault == CanDisturb

(* ---- Initial states ---------------------------------------------------- *)
(* A user the bot has never seen, or a verified user bound to a live       *)
(* thread whose health markers have run out; the bound user has used one   *)
(* or all of the verification attempts of the current window.              *)
FLFresh ==
    /\ users = [verify_state |-> FALSE, thread_id |-> 0]
    /\ threads = {}
    /\ rateLimit = [message |-> 0, verify |-> 0]
    /\ telegram = [live |-> {}, next |-> FirstThreadId,
                   copies |-> [m \in Msgs |-> 0], stray |-> {},
                   challenges |-> {}, keyword |-> {}]
    /\ hist.start = "fresh"

FLBound ==
    /\ users = [verify_state |-> TRUE, thread_id |-> FirstThreadId]
    /\ threads = {FirstThreadId}
    /\ rateLimit \in {[message |-> 0, verify |-> n] : n \in {1, RATE_LIMIT_VERIFY}}
    /\ telegram = [live |-> {FirstThreadId}, next |-> FirstThreadId + 1,
                   copies |-> [m \in Msgs |-> 0], stray |-> {},
                   challenges |-> {}, keyword |-> {}]
    /\ hist.start = "bound"

FLInit ==
    /\ TOPIC_MAP = [needs_verify |-> FALSE, user_challenge |-> 0,
                    chal |-> [v \in Vids |-> NoChal], forwarded |-> {},
                    thread_ok |-> {}]
    /\ threadHealthCache = {}
    /\ topicCreateInFlight = [i \in Isolates |-> "none"]
    /\ userLock = "none"
    /\ proc = [p \in Procs |-> Idle]
    /\ hist \in {[start |-> s, updates |-> 0, sent |-> 0, events |-> 0,
                  nextVid |-> 1, orphaned |-> {}, lost |-> {},
                  reused |-> FALSE, lostOn |-> {}, queued |-> {},
                  okProbed |-> {}] :
                    s \in {"fresh", "bound"}}
    /\ (FLFresh \/ FLBound)

(* ---- helpers ----------------------------------------------------------- *)
(* The isolate a new invocation may be routed to; while nothing else runs  *)
(* every Map is empty and the isolates are interchangeable.                *)
IsolateFor(p) ==
    IF \A q \in Procs \ {p} : proc[q].pc = "idle" THEN {1} ELSE Isolates

(* A settled promise that leaves its entry in the Map.                     *)
InFlightKept(p) == topicCreateInFlight

(* The in-flight Map of an isolate once the promise of p has settled       *)
(* (finally: topicCreateInFlight.delete(key)).                             *)
InFlightDeleted(p) == [topicCreateInFlight EXCEPT ![proc[p].iso] = "none"]

(* New invocations take the first free slot (slots are interchangeable).   *)
FreeSlot(p) ==
    /\ proc[p].pc = "idle"
    /\ \A q \in Procs : (proc[q].pc = "idle") => (p = "p1" \/ q # "p1")

Disturbed == [hist EXCEPT !.events = @ + 1]

Fault == Disturbed

(* The history after probeForumThread of thread t has returned status: a   *)
(* non-committal status counts as a disturbance, ok is remembered.         *)
AfterProbe(t, status) ==
    [(IF status \in FaultStatuses THEN Fault ELSE hist)
        EXCEPT !.okProbed = IF status = "ok" THEN @ \cup {t} ELSE @]

(* Where a throw out of forwardToTopic leaves the invocation.  In the      *)
(* replay loop the catch of handleCallbackQueryImpl ends the replay.  In   *)
(* a message handler withUserLock releases the lease and runWithUserLock   *)
(* runs fn() once more without it; a throw of that run ends the handler.   *)
AfterThrow(r) ==
    IF r.kind = "message" /\ ~r.rerun
    THEN [Idle EXCEPT !.pc = "ft_rate", !.kind = "message", !.msg = r.msg,
                      !.rerun = TRUE, !.iso = r.iso]
    ELSE Idle

(* The lease after invocation p has left withUserLock.                     *)
Released(p) == IF userLock = p THEN "none" ELSE userLock

(* forwardToTopic returns to its caller.                                   *)
Return(r) == [r EXCEPT !.pc = "ft_ret", !.rec = 0, !.landed = FALSE,
                       !.ack = 0, !.probe = ""]

(* The Lost transition starts for the thread the invocation has read:      *)
(* resetUserVerificationAndRequireReverify(env, { oldThreadId:             *)
(* rec.thread_id, pendingMsgId: msg.message_id, reason }).                 *)
Reset(r, site, status) ==
    [r EXCEPT !.pc = "rs_verify", !.old = r.rec, !.pmsg = r.msg,
              !.inReset = TRUE, !.rec = 0, !.landed = FALSE, !.ack = 0,
              !.probe = "", !.reason = [site |-> site, status |-> status]]

(* The probe statuses that say nothing about the thread, among those that  *)
(* started a Lost transition.                                              *)
LostOn(h, status) ==
    [h EXCEPT !.lostOn = @ \cup ({status} \cap {"probe_invalid", "unknown_error"})]

(* ---- the environment --------------------------------------------------- *)
(* Message m is sent while the thread the user is bound to no longer       *)
(* exists.                                                                 *)
Orphaned(m) ==
    IF users.thread_id # 0 /\ users.thread_id \notin telegram.live
    THEN {m}
    ELSE {}

(* The user sends a private message: the webhook calls                     *)
(* handlePrivateMessage, which enters withUserLock.                        *)
UserSends(p) ==
    /\ FreeSlot(p)
    /\ hist.updates < FLMaxUpdates
    /\ \E i \in IsolateFor(p) :
          proc' = [proc EXCEPT ![p] = [Idle EXCEPT !.pc = "lock",
                                                   !.kind = "message",
                                                   !.msg = hist.sent + 1,
                                                   !.iso = i]]
    /\ \E hit \in BOOLEAN :
          /\ hit => Cardinality(telegram.keyword) < FLMaxKeyword
          /\ telegram' = IF hit
                         THEN [telegram EXCEPT
                                  !.keyword = @ \cup {hist.sent + 1}]
                         ELSE telegram
    /\ hist' = [hist EXCEPT !.sent = @ + 1, !.updates = @ + 1,
                            !.orphaned = @ \cup Orphaned(hist.sent + 1)]
    /\ UNCHANGED <<users, threads, TOPIC_MAP, rateLimit, threadHealthCache,
                   topicCreateInFlight, userLock>>
    /\ UNCHANGED flOthers

(* The user presses a button of a challenge shown to them (the platform    *)
(* may deliver the same press more than once): the webhook calls           *)
(* handleCallbackQuery.                                                    *)
UserClicks(p) ==
    /\ FreeSlot(p)
    /\ hist.updates < FLMaxUpdates
    /\ \E v \in telegram.challenges, i \in IsolateFor(p) :
          proc' = [proc EXCEPT ![p] = [Idle EXCEPT !.pc = "cb_get",
                                                   !.kind = "callback",
                                                   !.vid = v, !.iso = i]]
    /\ hist' = [hist EXCEPT !.updates = @ + 1]
    /\ UNCHANGED <<users, threads, TOPIC_MAP, rateLimit, threadHealthCache,
                   topicCreateInFlight, userLock, telegram>>
    /\ UNCHANGED flOthers

(* An administrator deletes a topic of the supergroup.                     *)
ThreadDeleted ==
    /\ CanDisturb
    /\ \E t \in telegram.live :
          telegram' = [telegram EXCEPT !.live = @ \ {t}]
    /\ hist' = Disturbed
    /\ UNCHANGED <<users, threads, TOPIC_MAP, rateLimit, threadHealthCache,
                   topicCreateInFlight, userLock, proc>>
    /\ UNCHANGED flOthers

(* An administrator sends /cleanup: handleCleanupCommandImpl scans users.  *)
AdminCleanup(p) ==
    /\ FreeSlot(p)
    /\ hist.updates < FLMaxUpdates
    /\ proc' = [proc EXCEPT ![p] = [Idle EXCEPT !.pc = "cl_list",
                                                 !.kind = "cleanup"]]
    /\ hist' = [hist EXCEPT !.updates = @ + 1]
    /\ UNCHANGED <<users, threads, TOPIC_MAP, rateLimit, threadHealthCache,
                   topicCreateInFlight, userLock, telegram>>
    /\ UNCHANGED flOthers

(* ---- withUserLock around forwardToTopic -------------------------------- *)
(* acquireUserLock is granted the lease.                                   *)
lockAcquire(p) ==
    /\ proc[p].pc = "lock"
    /\ userLock = "none"
    /\ userLock' = p
    /\ proc' = [proc EXCEPT ![p].pc = "ft_rate", ![p].locked = TRUE]
    /\ UNCHANGED <<users, threads, TOPIC_MAP, rateLimit, threadHealthCache,
                   topicCreateInFlight, telegram, hist>>
    /\ UNCHANGED flOthers

(* acquireUserLock gives up (UserLockTimeoutError): handlePrivateMessage   *)
(* tells the user to retry and drops the message.                          *)
lockTimeout(p) ==
    /\ proc[p].pc = "lock"
    /\ userLock # "none"
    /\ proc' = [proc EXCEPT ![p] = Idle]
    /\ UNCHANGED <<users, threads, TOPIC_MAP, rateLimit, threadHealthCache,
                   topicCreateInFlight, userLock, telegram, hist>>
    /\ UNCHANGED flOthers

(* ---- forwardToTopicImpl ------------------------------------------------ *)
(* checkRateLimit(userId, env, 'message', RATE_LIMIT_MESSAGE, ...).        *)
ftRateLimit(p) ==
    /\ proc[p].pc = "ft_rate"
    /\ IF rateLimit.message < RATE_LIMIT_MESSAGE
       THEN /\ rateLimit' = [rateLimit EXCEPT !.message = @ + 1]
            /\ proc' = [proc EXCEPT ![p].pc = "ft_verified"]
       ELSE /\ rateLimit' = rateLimit
            /\ proc' = [proc EXCEPT ![p] = Return(@)]
    /\ UNCHANGED <<users, threads, TOPIC_MAP, threadHealthCache,
                   topicCreateInFlight, userLock, telegram, hist>>
    /\ UNCHANGED flOthers

(* dbGetVerifyState; an unverified user gets a challenge.                  *)
ftVerified(p) ==
    /\ proc[p].pc = "ft_verified"
    /\ proc' = [proc EXCEPT ![p] =
                  IF users.verify_state
                  THEN [@ EXCEPT !.pc = "ft_needs"]
                  ELSE [@ EXCEPT !.pc = "sv_user", !.pmsg = proc[p].msg]]
    /\ UNCHANGED <<users, threads, TOPIC_MAP, rateLimit, threadHealthCache,
                   topicCreateInFlight, userLock, telegram, hist>>
    /\ UNCHANGED flOthers

(* getFilterText(msg): the message handed to forwardToTopic carries its    *)
(* text; the fakeMsg of the replay is { message_id, chat, from }.          *)
HasFilterText(r) == r.kind = "message"

(* matchKeyword(env, filterText) finds a keyword in the text.              *)
matchKeyword(r) == HasFilterText(r) /\ r.msg \in telegram.keyword

(* TOPIC_MAP.get(needs_verify); a user who need not verify again has the   *)
(* text of the message filtered: a keyword hit is reported to the user     *)
(* and forwardToTopic returns.                                             *)
ftNeedsVerify(p) ==
    /\ proc[p].pc = "ft_needs"
    /\ proc' = [proc EXCEPT ![p] =
                  IF TOPIC_MAP.needs_verify
                  THEN [@ EXCEPT !.pc = "sv_user", !.pmsg = proc[p].msg]
                  ELSE IF matchKeyword(@)
                  THEN Return(@)
                  ELSE [@ EXCEPT !.pc = "ft_rec"]]
    /\ UNCHANGED <<users, threads, TOPIC_MAP, rateLimit, threadHealthCache,
                   topicCreateInFlight, userLock, telegram, hist>>
    /\ UNCHANGED flOthers

(* rec = dbUserGet(userId).                                                *)
ftUserGet(p) ==
    /\ proc[p].pc = "ft_rec"
    /\ proc' = [proc EXCEPT ![p] =
                  IF users.thread_id = 0
                  THEN [@ EXCEPT !.pc = "gc_existing"]
                  ELSE [@ EXCEPT !.pc = "ft_map", !.rec = users.thread_id]]
    /\ UNCHANGED <<users, threads, TOPIC_MAP, rateLimit, threadHealthCache,
                   topicCreateInFlight, userLock, telegram, hist>>
    /\ UNCHANGED flOthers

(* ---- getOrCreateUserTopicRecImpl and createTopicImpl ------------------- *)
(* The promise p of the invocation `owner` settles with thread id `result` *)
(* (0 = it rejects): owner and every invocation awaiting the in-flight     *)
(* promise continue, and the finally block removes the map entry.          *)
Settled(owner, result) ==
    [q \in Procs |->
        IF q = owner \/ (proc[q].pc = "gc_wait"
                         /\ topicCreateInFlight[proc[q].iso] = owner)
        THEN IF result = 0
             THEN AfterThrow(proc[q])
             ELSE [proc[q] EXCEPT !.pc = "ft_map", !.rec = result]
        ELSE proc[q]]

LeaseAfterSettle(owner, result) ==
    IF result = 0 /\ userLock # "none"
       /\ (userLock = owner
           \/ (proc[userLock].pc = "gc_wait"
               /\ topicCreateInFlight[proc[userLock].iso] = owner))
    THEN "none"
    ELSE userLock

(* existing = dbUserGet; then the in-flight map is looked up and, if it is *)
(* empty, p is started and registered.                                     *)
gcExisting(p) ==
    /\ proc[p].pc = "gc_existing"
    /\ IF users.thread_id # 0
       THEN /\ proc' = [proc EXCEPT ![p].pc = "ft_map",
                                    ![p].rec = users.thread_id]
            /\ topicCreateInFlight' = topicCreateInFlight
       ELSE IF topicCreateInFlight[proc[p].iso] # "none"
       THEN /\ proc' = [proc EXCEPT ![p].pc = "gc_wait"]
            /\ topicCreateInFlight' = topicCreateInFlight
       ELSE /\ proc' = [proc EXCEPT ![p].pc = "gc_again"]
            /\ topicCreateInFlight' =
                  [topicCreateInFlight EXCEPT ![proc[p].iso] = p]
    /\ UNCHANGED <<users, threads, TOPIC_MAP, rateLimit, threadHealthCache,
                   userLock, telegram, hist>>
    /\ UNCHANGED flOthers

(* again = dbUserGet inside p.                                             *)
gcAgain(p) ==
    /\ proc[p].pc = "gc_again"
    /\ IF users.thread_id # 0
       THEN /\ proc' = Settled(p, users.thread_id)
            /\ topicCreateInFlight' = InFlightDeleted(p)
       ELSE /\ proc' = [proc EXCEPT ![p].pc = "ct_create"]
            /\ topicCreateInFlight' = topicCreateInFlight
    /\ UNCHANGED <<users, threads, TOPIC_MAP, rateLimit, threadHealthCache,
                   userLock, telegram, hist>>
    /\ UNCHANGED flOthers

(* createForumTopic: the platform creates a topic with a fresh id, or the  *)
(* call fails and createTopicImpl throws (no retries are configured).      *)
ctCreate(p) ==
    /\ proc[p].pc = "ct_create"
    /\ \/ /\ telegram' = [telegram EXCEPT !.live = @ \cup {telegram.next},
                                          !.next = @ + 1]
          /\ proc' = [proc EXCEPT ![p].pc = "ct_probe",
                                  ![p].rec = telegram.next]
          /\ UNCHANGED <<topicCreateInFlight, userLock, hist>>
       \/ /\ CanFault
          /\ hist' = Fault
          /\ proc' = Settled(p, 0)
          /\ userLock' = LeaseAfterSettle(p, 0)
          /\ topicCreateInFlight' = InFlightDeleted(p)
          /\ UNCHANGED telegram
    /\ UNCHANGED <<users, threads, TOPIC_MAP, rateLimit, threadHealthCache>>
    /\ UNCHANGED flOthers

(* probeForumThread(threadId, doubleCheckOnMissingThreadId: false): only   *)
(* ok and probe_invalid lead to the binding; anything else throws.         *)
ctProbe(p) ==
    /\ proc[p].pc = "ct_probe"
    /\ \E status \in probeForumThread(proc[p].rec, FALSE, CanFault) :
          /\ hist' = AfterProbe(proc[p].rec, status)
          /\ IF status \in {"ok", "probe_invalid"}
             THEN /\ proc' = [proc EXCEPT ![p].pc = "ct_user"]
                  /\ UNCHANGED <<topicCreateInFlight, userLock>>
             ELSE /\ proc' = Settled(p, 0)
                  /\ userLock' = LeaseAfterSettle(p, 0)
                  /\ topicCreateInFlight' = InFlightDeleted(p)
    /\ UNCHANGED <<users, threads, TOPIC_MAP, rateLimit, threadHealthCache,
                   telegram>>
    /\ UNCHANGED flOthers

(* dbUserUpdate(userId, { thread_id, title, closed }).                     *)
ctUserUpdate(p) ==
    /\ proc[p].pc = "ct_user"
    /\ users' = [users EXCEPT !.thread_id = proc[p].rec]
    /\ proc' = [proc EXCEPT ![p].pc = "ct_thread"]
    /\ UNCHANGED <<threads, TOPIC_MAP, rateLimit, threadHealthCache,
                   topicCreateInFlight, userLock, telegram, hist>>
    /\ UNCHANGED flOthers

(* dbThreadPut(rec.thread_id, userId).                                     *)
ctThreadPut(p) ==
    /\ proc[p].pc = "ct_thread"
    /\ threads' = threads \cup {proc[p].rec}
    /\ proc' = [proc EXCEPT ![p].pc = "ct_ok"]
    /\ UNCHANGED <<users, TOPIC_MAP, rateLimit, threadHealthCache,
                   topicCreateInFlight, userLock, telegram, hist>>
    /\ UNCHANGED flOthers

(* TOPIC_MAP.put(thread_ok:<id>, "1"); createTopic returns rec.            *)
ctHealthPut(p) ==
    /\ proc[p].pc = "ct_ok"
    /\ TOPIC_MAP' = [TOPIC_MAP EXCEPT !.thread_ok = @ \cup {proc[p].rec}]
    /\ proc' = Settled(p, proc[p].rec)
    /\ topicCreateInFlight' = InFlightDeleted(p)
    /\ UNCHANGED <<users, threads, rateLimit, threadHealthCache, userLock,
                   telegram, hist>>
    /\ UNCHANGED flOthers

(* ---- forwardToTopicImpl, continued ------------------------------------- *)
(* mappedUser = dbThreadGetUserId(rec.thread_id): the threads table, else  *)
(* the users row bound to that thread (which re-inserts the mapping).      *)
ftThreadGet(p) ==
    /\ proc[p].pc = "ft_map"
    /\ IF proc[p].rec \in threads
       THEN /\ threads' = threads
            /\ proc' = [proc EXCEPT ![p].pc = "ft_health"]
       ELSE IF users.thread_id = proc[p].rec
       THEN /\ threads' = threads \cup {proc[p].rec}
            /\ proc' = [proc EXCEPT ![p].pc = "ft_health"]
       ELSE /\ threads' = threads
            /\ proc' = [proc EXCEPT ![p].pc = "ft_map_put"]
    /\ UNCHANGED <<users, TOPIC_MAP, rateLimit, threadHealthCache,
                   topicCreateInFlight, userLock, telegram, hist>>
    /\ UNCHANGED flOthers

(* dbThreadPut(rec.thread_id, userId) when no mapping was found.           *)
ftThreadPut(p) ==
    /\ proc[p].pc = "ft_map_put"
    /\ threads' = threads \cup {proc[p].rec}
    /\ proc' = [proc EXCEPT ![p].pc = "ft_health"]
    /\ UNCHANGED <<users, TOPIC_MAP, rateLimit, threadHealthCache,
                   topicCreateInFlight, userLock, telegram, hist>>
    /\ UNCHANGED flOthers

(* threadHealthCache.get, then TOPIC_MAP.get(thread_ok:<id>).              *)
ftHealthGet(p) ==
    /\ proc[p].pc = "ft_health"
    /\ IF proc[p].rec \in threadHealthCache
       THEN /\ proc' = [proc EXCEPT ![p].pc = "ft_copy"]
            /\ threadHealthCache' = threadHealthCache
       ELSE IF proc[p].rec \in TOPIC_MAP.thread_ok
       THEN /\ proc' = [proc EXCEPT ![p].pc = "ft_copy"]
            /\ threadHealthCache' = threadHealthCache \cup {proc[p].rec}
       ELSE /\ proc' = [proc EXCEPT ![p].pc = "ft_probe"]
            /\ threadHealthCache' = threadHealthCache
    /\ UNCHANGED <<users, threads, TOPIC_MAP, rateLimit, topicCreateInFlight,
                   userLock, telegram, hist>>
    /\ UNCHANGED flOthers

(* probe = probeForumThread(rec.thread_id, reason: "health_check"): the    *)
(* platform has answered.                                                  *)
ftHealthProbe(p) ==
    /\ proc[p].pc = "ft_probe"
    /\ \E status \in probeForumThread(proc[p].rec, TRUE, CanFault) :
          /\ proc' = [proc EXCEPT ![p].pc = "ft_probed", ![p].probe = status]
          /\ hist' = AfterProbe(proc[p].rec, status)
    /\ UNCHANGED <<users, threads, TOPIC_MAP, rateLimit, threadHealthCache,
                   topicCreateInFlight, userLock, telegram>>
    /\ UNCHANGED flOthers

(* A health check that does not take a redirect for a loss.                *)
healthCheckLostIgnoringRedirect(status) ==
    status \in {"missing", "missing_thread_id"}

(* The statuses the health check takes for the loss of the thread.         *)
healthCheckLost(status) ==
    status \in {"redirected", "missing", "missing_thread_id"}

(* The branch of the health check on probe.status.                         *)
ftHealthBranch(p) ==
    /\ proc[p].pc = "ft_probed"
    /\ LET status == proc[p].probe
       IN  IF healthCheckLost(status)
           THEN /\ proc' = [proc EXCEPT ![p] =
                                 Reset(@, "health_check", status)]
                /\ hist' = LostOn(hist, status)
                /\ threadHealthCache' = threadHealthCache
           ELSE IF status = "unknown_error"
           THEN /\ proc' = [proc EXCEPT ![p].pc = "ft_copy", ![p].probe = ""]
                /\ hist' = hist
                /\ threadHealthCache' = threadHealthCache
           ELSE /\ proc' = [proc EXCEPT ![p].pc = "ft_health_put",
                                        ![p].probe = ""]
                /\ hist' = hist
                /\ threadHealthCache' = threadHealthCache \cup {proc[p].rec}
    /\ UNCHANGED <<users, threads, TOPIC_MAP, rateLimit, topicCreateInFlight,
                   userLock, telegram>>
    /\ UNCHANGED flOthers

(* TOPIC_MAP.put(thread_ok:<id>, "1") after ok or probe_invalid.           *)
ftHealthPut(p) ==
    /\ proc[p].pc = "ft_health_put"
    /\ TOPIC_MAP' = [TOPIC_MAP EXCEPT !.thread_ok = @ \cup {proc[p].rec}]
    /\ proc' = [proc EXCEPT ![p].pc = "ft_copy"]
    /\ UNCHANGED <<users, threads, rateLimit, threadHealthCache,
                   topicCreateInFlight, userLock, telegram, hist>>
    /\ UNCHANGED flOthers

(* copyMessage into rec.thread_id and the branch on its result: silent     *)
(* redirect, result without a thread id, failure, success.  A copy the     *)
(* platform accepts for a deleted thread ends up in General.               *)
ftCopy(p) ==
    /\ proc[p].pc = "ft_copy"
    /\ \E res \in CopyResponses(proc[p].rec, CanFault) :
          LET t == proc[p].rec
              m == proc[p].msg
              lands == res.ok /\ t \in telegram.live
              strays == res.ok /\ t \notin telegram.live
              h == [(IF res = TgErr("too many requests") THEN Fault ELSE hist)
                       EXCEPT !.reused = @ \/ t \in hist.lost]
          IN  /\ telegram' = IF lands
                             THEN [telegram EXCEPT !.copies[m] = @ + 1]
                             ELSE IF strays
                             THEN [telegram EXCEPT !.stray = @ \cup {m}]
                             ELSE telegram
              /\ IF res.ok /\ res.thread # 0 /\ res.thread # t
                 THEN /\ proc' = [proc EXCEPT ![p].pc = "ft_del_stray",
                                         ![p].ack = res.thread]
                      /\ hist' = h
                 ELSE IF res.ok /\ res.thread = 0
                 THEN /\ proc' = [proc EXCEPT ![p].pc = "ft_copy_probe",
                                         ![p].landed = lands]
                      /\ hist' = h
                 ELSE IF ~res.ok /\ isTopicMissingOrDeleted(res.description)
                 THEN /\ proc' = [proc EXCEPT ![p] =
                             Reset(@, "forward_failed_topic_missing", "")]
                      /\ hist' = h
                 ELSE /\ proc' = [proc EXCEPT ![p] = Return(@)]
                      /\ hist' = h
    /\ UNCHANGED <<users, threads, TOPIC_MAP, rateLimit, threadHealthCache,
                   topicCreateInFlight, userLock>>
    /\ UNCHANGED flOthers

(* A handler of the quiet redirect that removes the misrouted copy and     *)
(* returns, leaving the binding as it is.                                  *)
ftDeleteStrayAndReturn(p) ==
    /\ proc[p].pc = "ft_del_stray"
    /\ telegram' = [telegram EXCEPT !.stray = @ \ {proc[p].msg}]
    /\ proc' = [proc EXCEPT ![p] = Return(@)]
    /\ UNCHANGED <<users, threads, TOPIC_MAP, rateLimit, threadHealthCache,
                   topicCreateInFlight, userLock, hist>>
    /\ UNCHANGED flOthers

(* The acknowledgment named another thread (quiet redirect):               *)
(* deleteMessage(copyResult.result.message_id) removes the misrouted copy, *)
(* then the Lost transition starts.                                        *)
ftDeleteStray(p) ==
    /\ proc[p].pc = "ft_del_stray"
    /\ telegram' = [telegram EXCEPT !.stray = @ \ {proc[p].msg}]
    /\ proc' = [proc EXCEPT ![p] =
                  Reset(@, "forward_redirected_to_general", "")]
    /\ UNCHANGED <<users, threads, TOPIC_MAP, rateLimit, threadHealthCache,
                   topicCreateInFlight, userLock, hist>>
    /\ UNCHANGED flOthers

(* The result carried no thread id: probe = probeForumThread(              *)
(* rec.thread_id, reason: "forward_result_missing_thread_id"); the         *)
(* platform has answered.                                                  *)
ftCopyProbe(p) ==
    /\ proc[p].pc = "ft_copy_probe"
    /\ \E status \in probeForumThread(proc[p].rec, TRUE, CanFault) :
          /\ proc' = [proc EXCEPT ![p].pc = "ft_copy_probed",
                                  ![p].probe = status]
          /\ hist' = AfterProbe(proc[p].rec, status)
    /\ UNCHANGED <<users, threads, TOPIC_MAP, rateLimit, threadHealthCache,
                   topicCreateInFlight, userLock, telegram>>
    /\ UNCHANGED flOthers

(* Any status other than ok deletes the copy and starts the Lost           *)
(* transition.                                                             *)
ftCopyProbeBranch(p) ==
    /\ proc[p].pc = "ft_copy_probed"
    /\ LET status == proc[p].probe
       IN  IF status # "ok"
           THEN /\ telegram' =
                     IF proc[p].landed
                     THEN [telegram EXCEPT !.copies[proc[p].msg] = @ - 1]
                     ELSE [telegram EXCEPT !.stray = @ \ {proc[p].msg}]
                /\ proc' = [proc EXCEPT ![p] =
                       Reset(@, "forward_missing_thread_id", status)]
                /\ hist' = LostOn(hist, status)
           ELSE /\ telegram' = telegram
                /\ proc' = [proc EXCEPT ![p] = Return(@)]
                /\ hist' = hist
    /\ UNCHANGED <<users, threads, TOPIC_MAP, rateLimit, threadHealthCache,
                   topicCreateInFlight, userLock>>
    /\ UNCHANGED flOthers

(* forwardToTopic has returned: the message handler leaves withUserLock    *)
(* (releaseUserLock); the replay loop goes on to write the dedup marker.   *)
ftReturn(p) ==
    /\ proc[p].pc = "ft_ret"
    /\ IF proc[p].kind = "callback"
       THEN /\ proc' = [proc EXCEPT ![p].pc = "cb_mark"]
            /\ userLock' = userLock
       ELSE /\ proc' = [proc EXCEPT ![p] = Idle]
            /\ userLock' = Released(p)
    /\ UNCHANGED <<users, threads, TOPIC_MAP, rateLimit, threadHealthCache,
                   topicCreateInFlight, telegram, hist>>
    /\ UNCHANGED flOthers

(* ---- resetUserVerificationAndRequireReverifyImpl (the Lost transition) - *)
(* dbUserUpdate(userId, { verify_state: null, verify_expires_at: null }).  *)
rsVerify(p) ==
    /\ proc[p].pc = "rs_verify"
    /\ users' = [users EXCEPT !.verify_state = FALSE]
    /\ proc' = [proc EXCEPT ![p].pc = "rs_needs"]
    /\ UNCHANGED <<threads, TOPIC_MAP, rateLimit, threadHealthCache,
                   topicCreateInFlight, userLock, telegram, hist>>
    /\ UNCHANGED flOthers

(* TOPIC_MAP.put(needs_verify:<user>, '1').                                *)
rsNeeds(p) ==
    /\ proc[p].pc = "rs_needs"
    /\ TOPIC_MAP' = [TOPIC_MAP EXCEPT !.needs_verify = TRUE]
    /\ proc' = [proc EXCEPT ![p].pc = "rs_thread"]
    /\ UNCHANGED <<users, threads, rateLimit, threadHealthCache,
                   topicCreateInFlight, userLock, telegram, hist>>
    /\ UNCHANGED flOthers

(* dbUserUpdate(userId, { thread_id: null, title: null, closed: false }).  *)
rsThread(p) ==
    /\ proc[p].pc = "rs_thread"
    /\ users' = [users EXCEPT !.thread_id = 0]
    /\ proc' = [proc EXCEPT ![p].pc = "rs_thread_del"]
    /\ UNCHANGED <<threads, TOPIC_MAP, rateLimit, threadHealthCache,
                   topicCreateInFlight, userLock, telegram, hist>>
    /\ UNCHANGED flOthers

(* dbThreadDelete(oldThreadId).                                            *)
rsThreadDelete(p) ==
    /\ proc[p].pc = "rs_thread_del"
    /\ threads' = threads \ {proc[p].old}
    /\ proc' = [proc EXCEPT ![p].pc = "rs_health_del"]
    /\ UNCHANGED <<users, TOPIC_MAP, rateLimit, threadHealthCache,
                   topicCreateInFlight, userLock, telegram, hist>>
    /\ UNCHANGED flOthers

(* TOPIC_MAP.delete(thread_ok:<old>), threadHealthCache.delete(old), the   *)
(* log entry with reason (its last use), then                              *)
(* sendVerificationChallenge(userId, env, pendingMsgId).                   *)
rsHealthDelete(p) ==
    /\ proc[p].pc = "rs_health_del"
    /\ TOPIC_MAP' = [TOPIC_MAP EXCEPT !.thread_ok = @ \ {proc[p].old}]
    /\ threadHealthCache' = threadHealthCache \ {proc[p].old}
    /\ proc' = [proc EXCEPT ![p].pc = "sv_user", ![p].reason = NoReason]
    /\ UNCHANGED <<users, threads, rateLimit, topicCreateInFlight, userLock,
                   telegram, hist>>
    /\ UNCHANGED flOthers

(* ---- sendVerificationChallengeImpl ------------------------------------- *)
(* sendVerificationChallenge returns: to forwardToTopic (which returns),   *)
(* or to the Lost transition, which is then complete.                      *)
SvReturn(r) ==
    [r EXCEPT !.pc = IF r.kind = "cleanup" THEN "cl_ret" ELSE "ft_ret",
              !.vid = 0, !.st = <<>>]

(* The threads whose Lost transition is complete.                          *)
LostDone(r) ==
    IF r.inReset THEN [hist EXCEPT !.lost = @ \cup {r.old}] ELSE hist

(* The message ids of the pending list s have been stored in a challenge.  *)
Queued(h, s) == [h EXCEPT !.queued = @ \cup {s[i] : i \in 1 .. Len(s)}]

(* existingChallenge = TOPIC_MAP.get(user_challenge:<user>).               *)
svUserChallenge(p) ==
    /\ proc[p].pc = "sv_user"
    /\ proc' = [proc EXCEPT ![p] =
                  IF TOPIC_MAP.user_challenge = 0
                  THEN [@ EXCEPT !.pc = "sv_rate"]
                  ELSE [@ EXCEPT !.pc = "sv_state",
                                 !.vid = TOPIC_MAP.user_challenge]]
    /\ UNCHANGED <<users, threads, TOPIC_MAP, rateLimit, threadHealthCache,
                   topicCreateInFlight, userLock, telegram, hist>>
    /\ UNCHANGED flOthers

(* state = safeGetJSON(chal:<existing>): a stale pointer is deleted next;  *)
(* otherwise the pending message is appended (next step) or nothing is     *)
(* left to do.                                                             *)
svState(p) ==
    /\ proc[p].pc = "sv_state"
    /\ LET state == TOPIC_MAP.chal[proc[p].vid]
           m == proc[p].pmsg
       IN  IF ~state.present
           THEN /\ proc' = [proc EXCEPT ![p].pc = "sv_del_user"]
                /\ hist' = hist
           ELSE IF m # 0 /\ ~InSeq(m, state.pending_ids)
           THEN /\ proc' = [proc EXCEPT ![p].pc = "sv_append",
                      ![p].st = TrimPending(Append(state.pending_ids, m))]
                /\ hist' = hist
           ELSE /\ proc' = [proc EXCEPT ![p] = SvReturn(@)]
                /\ hist' = LostDone(proc[p])
    /\ UNCHANGED <<users, threads, TOPIC_MAP, rateLimit, threadHealthCache,
                   topicCreateInFlight, userLock, telegram>>
    /\ UNCHANGED flOthers

(* TOPIC_MAP.delete(user_challenge:<user>).                                *)
svDeleteStale(p) ==
    /\ proc[p].pc = "sv_del_user"
    /\ TOPIC_MAP' = [TOPIC_MAP EXCEPT !.user_challenge = 0]
    /\ proc' = [proc EXCEPT ![p].pc = "sv_rate"]
    /\ UNCHANGED <<users, threads, rateLimit, threadHealthCache,
                   topicCreateInFlight, userLock, telegram, hist>>
    /\ UNCHANGED flOthers

(* TOPIC_MAP.put(chal:<existing>, state with the new pending_ids).         *)
svAppend(p) ==
    /\ proc[p].pc = "sv_append"
    /\ TOPIC_MAP' = [TOPIC_MAP EXCEPT !.chal[proc[p].vid] =
                        [present |-> TRUE, pending_ids |-> proc[p].st]]
    /\ proc' = [proc EXCEPT ![p] = SvReturn(@)]
    /\ hist' = Queued(LostDone(proc[p]), proc[p].st)
    /\ UNCHANGED <<users, threads, rateLimit, threadHealthCache,
                   topicCreateInFlight, userLock, telegram>>
    /\ UNCHANGED flOthers

(* checkRateLimit(userId, env, 'verify', RATE_LIMIT_VERIFY, 300): when it  *)
(* refuses, the user is told to retry later and no challenge is created;   *)
(* otherwise verifyId = secureRandomId().                                  *)
svRateLimit(p) ==
    /\ proc[p].pc = "sv_rate"
    /\ IF rateLimit.verify < RATE_LIMIT_VERIFY
       THEN /\ rateLimit' = [rateLimit EXCEPT !.verify = @ + 1]
            /\ proc' = [proc EXCEPT ![p].pc = "sv_put_chal",
                                    ![p].vid = hist.nextVid]
            /\ hist' = [hist EXCEPT !.nextVid = @ + 1]
       ELSE /\ rateLimit' = rateLimit
            /\ proc' = [proc EXCEPT ![p] = SvReturn(@)]
            /\ hist' = LostDone(proc[p])
    /\ UNCHANGED <<users, threads, TOPIC_MAP, threadHealthCache,
                   topicCreateInFlight, userLock, telegram>>
    /\ UNCHANGED flOthers

(* TOPIC_MAP.put(chal:<verifyId>, state).                                  *)
svPutChal(p) ==
    /\ proc[p].pc = "sv_put_chal"
    /\ TOPIC_MAP' = [TOPIC_MAP EXCEPT !.chal[proc[p].vid] =
                        [present |-> TRUE,
                         pending_ids |-> IF proc[p].pmsg # 0
                                         THEN <<proc[p].pmsg>>
                                         ELSE <<>>]]
    /\ proc' = [proc EXCEPT ![p].pc = "sv_put_user"]
    /\ hist' = Queued(hist, IF proc[p].pmsg # 0 THEN <<proc[p].pmsg>>
                                                ELSE <<>>)
    /\ UNCHANGED <<users, threads, rateLimit, threadHealthCache,
                   topicCreateInFlight, userLock, telegram>>
    /\ UNCHANGED flOthers

(* TOPIC_MAP.put(user_challenge:<user>, verifyId).                         *)
svPutUser(p) ==
    /\ proc[p].pc = "sv_put_user"
    /\ TOPIC_MAP' = [TOPIC_MAP EXCEPT !.user_challenge = proc[p].vid]
    /\ proc' = [proc EXCEPT ![p].pc = "sv_send"]
    /\ UNCHANGED <<users, threads, rateLimit, threadHealthCache,
                   topicCreateInFlight, userLock, telegram, hist>>
    /\ UNCHANGED flOthers

(* sendMessage with the question and its buttons.                          *)
svSend(p) ==
    /\ proc[p].pc = "sv_send"
    /\ telegram' = [telegram EXCEPT !.challenges = @ \cup {proc[p].vid}]
    /\ proc' = [proc EXCEPT ![p] = SvReturn(@)]
    /\ hist' = LostDone(proc[p])
    /\ UNCHANGED <<users, threads, TOPIC_MAP, rateLimit, threadHealthCache,
                   topicCreateInFlight, userLock>>
    /\ UNCHANGED flOthers

(* ---- handleCallbackQueryImpl ------------------------------------------- *)
(* stateStr = TOPIC_MAP.get(chal:<verifyId>): the challenge is gone       *)
(* ("expired"), or the pressed button is the wrong or the right answer     *)
(* (selectedIndex === state.answerIndex).                                  *)
cbGetChal(p) ==
    /\ proc[p].pc = "cb_get"
    /\ \E right \in BOOLEAN :
          LET state == TOPIC_MAP.chal[proc[p].vid]
          IN  proc' = [proc EXCEPT ![p] =
                         IF state.present /\ right
                         THEN [@ EXCEPT !.pc = "cb_verify",
                                        !.pend = TrimPending(state.pending_ids)]
                         ELSE Idle]
    /\ UNCHANGED <<users, threads, TOPIC_MAP, rateLimit, threadHealthCache,
                   topicCreateInFlight, userLock, telegram, hist>>
    /\ UNCHANGED flOthers

(* dbSetVerifyState(userId, '1').                                          *)
cbSetVerified(p) ==
    /\ proc[p].pc = "cb_verify"
    /\ users' = [users EXCEPT !.verify_state = TRUE]
    /\ proc' = [proc EXCEPT ![p].pc = "cb_needs"]
    /\ UNCHANGED <<threads, TOPIC_MAP, rateLimit, threadHealthCache,
                   topicCreateInFlight, userLock, telegram, hist>>
    /\ UNCHANGED flOthers

(* TOPIC_MAP.delete(needs_verify:<user>).                                  *)
cbDelNeeds(p) ==
    /\ proc[p].pc = "cb_needs"
    /\ TOPIC_MAP' = [TOPIC_MAP EXCEPT !.needs_verify = FALSE]
    /\ proc' = [proc EXCEPT ![p].pc = "cb_del_chal"]
    /\ UNCHANGED <<users, threads, rateLimit, threadHealthCache,
                   topicCreateInFlight, userLock, telegram, hist>>
    /\ UNCHANGED flOthers

(* TOPIC_MAP.delete(chal:<verifyId>).                                      *)
cbDelChal(p) ==
    /\ proc[p].pc = "cb_del_chal"
    /\ TOPIC_MAP' = [TOPIC_MAP EXCEPT !.chal[proc[p].vid] = NoChal]
    /\ proc' = [proc EXCEPT ![p].pc = "cb_del_user"]
    /\ UNCHANGED <<users, threads, rateLimit, threadHealthCache,
                   topicCreateInFlight, userLock, telegram, hist>>
    /\ UNCHANGED flOthers

(* TOPIC_MAP.delete(user_challenge:<user>), editMessageText; the replay    *)
(* starts if the challenge had pending messages.                           *)
cbDelUser(p) ==
    /\ proc[p].pc = "cb_del_user"
    /\ TOPIC_MAP' = [TOPIC_MAP EXCEPT !.user_challenge = 0]
    /\ proc' = [proc EXCEPT ![p] =
                  IF @.pend = <<>>
                  THEN Idle
                  ELSE [@ EXCEPT !.pc = "cb_next", !.vid = 0]]
    /\ UNCHANGED <<users, threads, rateLimit, threadHealthCache,
                   topicCreateInFlight, userLock, telegram, hist>>
    /\ UNCHANGED flOthers

(* One turn of the replay loop: alreadyForwarded =                         *)
(* TOPIC_MAP.get(forwarded:<user>:<pendingId>); a marked message is        *)
(* skipped, any other goes through forwardToTopic(fakeMsg).                *)
cbNext(p) ==
    /\ proc[p].pc = "cb_next"
    /\ LET r == proc[p]
       IN  proc' = [proc EXCEPT ![p] =
                      IF r.pend = <<>>
                      THEN Idle
                      ELSE IF Head(r.pend) \in TOPIC_MAP.forwarded
                      THEN [r EXCEPT !.pend = Tail(r.pend)]
                      ELSE [Idle EXCEPT !.pc = "ft_rate",
                                        !.kind = "callback",
                                        !.pend = r.pend,
                                        !.msg = Head(r.pend),
                                        !.iso = r.iso]]
    /\ UNCHANGED <<users, threads, TOPIC_MAP, rateLimit, threadHealthCache,
                   topicCreateInFlight, userLock, telegram, hist>>
    /\ UNCHANGED flOthers

(* TOPIC_MAP.put(forwarded:<user>:<pendingId>, '1') after forwardToTopic   *)
(* has returned.                                                           *)
cbMark(p) ==
    /\ proc[p].pc = "cb_mark"
    /\ TOPIC_MAP' = [TOPIC_MAP EXCEPT !.forwarded = @ \cup {proc[p].msg}]
    /\ proc' = [proc EXCEPT ![p] =
                  [Idle EXCEPT !.pc = "cb_next", !.kind = "callback",
                               !.pend = Tail(proc[p].pend),
                               !.iso = proc[p].iso]]
    /\ UNCHANGED <<users, threads, rateLimit, threadHealthCache,
                   topicCreateInFlight, userLock, telegram, hist>>
    /\ UNCHANGED flOthers

(* ---- handleCleanupCommandImpl (D1 branch) ------------------------------ *)
(* dbListUsers: rows without a thread are skipped.                         *)
clList(p) ==
    /\ proc[p].pc = "cl_list"
    /\ proc' = [proc EXCEPT ![p] =
                  IF users.thread_id = 0
                  THEN Idle
                  ELSE [@ EXCEPT !.pc = "cl_probe", !.rec = users.thread_id]]
    /\ UNCHANGED <<users, threads, TOPIC_MAP, rateLimit, threadHealthCache,
                   topicCreateInFlight, userLock, telegram, hist>>
    /\ UNCHANGED flOthers

(* probe = probeForumThread(thread, reason: 'cleanup_check', no double     *)
(* check): the platform has answered.                                      *)
clProbe(p) ==
    /\ proc[p].pc = "cl_probe"
    /\ \E status \in probeForumThread(proc[p].rec, FALSE, CanFault) :
          /\ proc' = [proc EXCEPT ![p].pc = "cl_probed", ![p].probe = status]
          /\ hist' = AfterProbe(proc[p].rec, status)
    /\ UNCHANGED <<users, threads, TOPIC_MAP, rateLimit, threadHealthCache,
                   topicCreateInFlight, userLock, telegram>>
    /\ UNCHANGED flOthers

(* Only redirected and missing start the Lost transition; every other      *)
(* status is logged.                                                       *)
clBranch(p) ==
    /\ proc[p].pc = "cl_probed"
    /\ LET status == proc[p].probe
       IN  IF status \in {"redirected", "missing"}
           THEN /\ proc' = [proc EXCEPT ![p] =
                      [Reset(@, "cleanup_check", "") EXCEPT !.pmsg = 0]]
                /\ hist' = LostOn(hist, status)
           ELSE /\ proc' = [proc EXCEPT ![p] = Idle]
                /\ hist' = hist
    /\ UNCHANGED <<users, threads, TOPIC_MAP, rateLimit, threadHealthCache,
                   topicCreateInFlight, userLock, telegram>>
    /\ UNCHANGED flOthers

(* The Lost transition of the cleanup has returned.                        *)
clReturn(p) ==
    /\ proc[p].pc = "cl_ret"
    /\ proc' = [proc EXCEPT ![p] = Idle]
    /\ UNCHANGED <<users, threads, TOPIC_MAP, rateLimit, threadHealthCache,
                   topicCreateInFlight, userLock, telegram, hist>>
    /\ UNCHANGED flOthers

FLNext ==
    \/ ThreadDeleted
    \/ \E p \in Procs :
        \/ UserSends(p) \/ UserClicks(p) \/ AdminCleanup(p)
        \/ lockAcquire(p) \/ lockTimeout(p)
        \/ ftRateLimit(p) \/ ftVerified(p) \/ ftNeedsVerify(p) \/ ftUserGet(p)
        \/ gcExisting(p) \/ gcAgain(p)
        \/ ctCreate(p) \/ ctProbe(p) \/ ctUserUpdate(p) \/ ctThreadPut(p)
        \/ ctHealthPut(p)
        \/ ftThreadGet(p) \/ ftThreadPut(p) \/ ftHealthGet(p)
        \/ ftHealthProbe(p) \/ ftHealthBranch(p) \/ ftHealthPut(p)
        \/ ftCopy(p) \/ ftDeleteStray(p)
        \/ ftCopyProbe(p) \/ ftCopyProbeBranch(p) \/ ftReturn(p)
        \/ rsVerify(p) \/ rsNeeds(p) \/ rsThread(p) \/ rsThreadDelete(p)
        \/ rsHealthDelete(p)
        \/ svUserChallenge(p) \/ svState(p) \/ svDeleteStale(p) \/ svAppend(p)
        \/ svRateLimit(p) \/ svPutChal(p) \/ svPutUser(p) \/ svSend(p)
        \/ cbGetChal(p) \/ cbSetVerified(p) \/ cbDelNeeds(p) \/ cbDelChal(p)
        \/ cbDelUser(p) \/ cbNext(p) \/ cbMark(p)
        \/ clList(p) \/ clProbe(p) \/ clBranch(p) \/ clReturn(p)

(* ---- properties of the router ------------------------------------------ *)
(* No webhook invocation is in progress.                                   *)
Quiet == \A p \in Procs : proc[p].pc = "idle"

(* The challenge the user can currently complete.                          *)
OpenChallenge ==
    /\ TOPIC_MAP.user_challenge # 0
    /\ TOPIC_MAP.chal[TOPIC_MAP.user_challenge].present

(* C6: the replay of a pending set, delivered once or twice, one after the *)
(* other or concurrently, leaves at most one copy of each pending message  *)
(* in the destination thread.                                              *)
C6_ReplayForwardsAtMostOnce ==
    \A m \in Msgs : telegram.copies[m] <= 1

(* C7: a user the bot has never seen sends one message and answers the     *)
(* challenge correctly; once every delivery of the completion event has    *)
(* been handled (nothing else disturbing the run), exactly one copy of the *)
(* message is in the destination thread.                                   *)
C7_EndToEndExactlyOneCopy ==
    (/\ hist.start = "fresh"
     /\ hist.sent = 1
     /\ hist.events = 0
     /\ users.verify_state
     /\ Quiet)
        => telegram.copies[1] = 1

(* C8: the thread of a bound user has been deleted and the user's next     *)
(* message has been handled: exactly one challenge has been issued and it  *)
(* holds the message; and a thread whose Lost transition is complete is    *)
(* never bound to the user nor used as a destination of copyMessage again. *)
C8_DeletedThreadOneChallengeNoReuse ==
    /\ (/\ hist.start = "bound"
        /\ 1 \in hist.orphaned
        /\ hist.updates = 1
        /\ Quiet)
           => /\ Cardinality(telegram.challenges) = 1
              /\ OpenChallenge
              /\ InSeq(1, TOPIC_MAP.chal[TOPIC_MAP.user_challenge].pending_ids)
    /\ \A t \in hist.lost : users.thread_id # t /\ t \notin threads
    /\ ~hist.reused

(* C9: no Lost transition is started in response to a probe status of      *)
(* probe_invalid or unknown_error.                                         *)
C9_NonCommittalProbeNeverDestructive ==
    hist.lostOn = {}

(* The copyMessage acknowledgment invocation p holds names a thread other  *)
(* than the one the message was sent to.                                   *)
QuietRedirect(p) ==
    /\ proc[p].ack # 0
    /\ proc[p].ack # proc[p].rec

ConfirmedLoss(p) ==
    /\ proc[p].pc \in {"ft_probed", "ft_copy_probed", "cl_probed"}
    /\ \/ proc[p].probe \in {"redirected", "missing"}
       \/ proc[p].probe = "missing_thread_id" /\ proc[p].pc # "cl_probed"

(* C13: a caller holding such a status next starts the Lost transition for *)
(* the probed thread.                                                      *)
C13_LossStatusesStartLost ==
    [][\A p \in Procs :
          (ConfirmedLoss(p) /\ proc'[p] # proc[p])
             => /\ proc'[p].pc = "rs_verify"
                /\ proc'[p].inReset
                /\ proc'[p].old = proc[p].rec]_vars

(* C13 witness: the health check has started the Lost transition on a      *)
(* missing_thread_id that the second attempt confirmed.                    *)
C13_Witness ==
    \E p \in Procs :
        /\ proc[p].pc = "rs_verify"
        /\ proc[p].reason = [site |-> "health_check",
                             status |-> "missing_thread_id"]
        /\ proc[p].old = FirstThreadId

(* What a complete Lost transition of invocation p has established.        *)
LostPost(p) ==
    /\ users.thread_id = 0
    /\ proc[p].old \notin threads
    /\ proc[p].old \notin TOPIC_MAP.thread_ok
    /\ proc[p].old \notin threadHealthCache
    /\ ~users.verify_state
    /\ TOPIC_MAP.needs_verify
    /\ OpenChallenge
    /\ (proc[p].pmsg # 0 =>
          InSeq(proc[p].pmsg,
                TOPIC_MAP.chal[TOPIC_MAP.user_challenge].pending_ids))

(* resetUserVerificationAndRequireReverify of invocation p returns in this *)
(* step.                                                                   *)
LostReturns(p) ==
    /\ proc[p].pc \notin {"ft_ret", "cl_ret"}
    /\ proc'[p].pc \in {"ft_ret", "cl_ret"}
    /\ proc'[p].inReset

(* C10: when resetUserVerificationAndRequireReverify returns, the binding, *)
(* the thread mapping and both health markers of the old thread are gone,  *)
(* the user is unverified and marked for re-verification, and an open      *)
(* challenge holds the triggering message.                                 *)
C10_LostPostconditions ==
    [][\A p \in Procs : LostReturns(p) => LostPost(p)']_vars

(* Invocation p is inside the Lost transition: its first write is done,    *)
(* its last (the challenge) is not.                                        *)
MidLost(p) ==
    /\ proc[p].inReset
    /\ proc[p].pc \in {"rs_needs", "rs_thread", "rs_thread_del",
                       "rs_health_del", "sv_user", "sv_state", "sv_del_user",
                       "sv_append", "sv_rate", "sv_put_chal", "sv_put_user",
                       "sv_send"}

(* Invocation q reads or writes the state of the user in this step (being  *)
(* started and waiting for the lease touch none of it).                    *)
ActsOnUser(q) ==
    /\ proc'[q] # proc[q]
    /\ proc[q].pc \notin {"idle", "lock"}

(* No effect of the Lost transition invocation p has run is in place.      *)
LostNoneApplied(p) ==
    /\ users.thread_id = proc[p].old
    /\ users.verify_state
    /\ ~TOPIC_MAP.needs_verify

(* C27: the Lost transition is all-or-nothing: while an invocation is      *)
(* inside it no other invocation of the same user reads or writes the      *)
(* user's state, and when it returns either all of its effects are in      *)
(* place or none is.                                                       *)
C27_LostTransitionAtomic ==
    [][\A p \in Procs :
          /\ MidLost(p) => \A q \in Procs \ {p} : ~ActsOnUser(q)
          /\ LostReturns(p) => (LostPost(p)' \/ LostNoneApplied(p)')]_vars

(* Message m waits in the pending list of the challenge the user can      *)
(* still complete.                                                         *)
StillPending(m) ==
    /\ OpenChallenge
    /\ InSeq(m, TOPIC_MAP.chal[TOPIC_MAP.user_challenge].pending_ids)

(* C28: no queued message is lost: once every event has been handled with  *)
(* nothing disturbing the run (no deleted topic, no failing platform call) *)
(* and the user is verified, every message that was stored in a pending   *)
(* list has a copy in the destination thread or still waits in the list of *)
(* the open challenge.                                                     *)
C28_NoQueuedMessageLost ==
    (/\ hist.events = 0
     /\ Quiet
     /\ users.verify_state)
        => \A m \in hist.queued : telegram.copies[m] >= 1 \/ StillPending(m)

(* C29: the dedup marker forwarded:<user>:<message> is written only for a  *)
(* message whose copy was delivered to the user's destination thread: a    *)
(* marked message has a copy there.                                        *)
C29_MarkerOnlyForDeliveredCopy ==
    \A m \in TOPIC_MAP.forwarded : telegram.copies[m] >= 1

(* C33: a thread is recorded as healthy, by an entry of threadHealthCache  *)
(* or by the durable marker thread_ok:<id>, only after a probe of that     *)
(* thread has returned ok.                                                 *)
C33_HealthyOnlyAfterOkProbe ==
    (threadHealthCache \cup TOPIC_MAP.thread_ok) \subseteq hist.okProbed

(* The user is in the Lost state: a Lost transition is complete and no     *)
(* challenge has been completed since (the binding is cleared, the user is *)
(* unverified and marked needs_verify).                                    *)
InLost ==
    /\ hist.lost # {}
    /\ users.thread_id = 0
    /\ ~users.verify_state
    /\ TOPIC_MAP.needs_verify

(* C32: after a Lost transition, until the user has completed a new        *)
(* challenge, no thread is created for the user and none of the user's     *)
(* messages is copied to the group.                                        *)
C32_NothingForwardedWhileLost ==
    [][InLost => /\ telegram'.next = telegram.next
                 /\ \A m \in Msgs :
                       telegram'.copies[m] <= telegram.copies[m]]_vars

(* An invocation holds a topic it has created (createForumTopic answered)  *)
(* and has not yet written to users.thread_id.                             *)
HoldsUnboundTopic(q) == proc[q].pc \in {"ct_probe", "ct_user"}

(* C26: a user is bound to at most one thread, and one unbound episode     *)
(* sees at most one topic created: a topic is created only while the user *)
(* is unbound and no other invocation holds a topic it has created for     *)
(* this episode and not yet bound, whatever events run concurrently.       *)
C26_OneThreadPerUnboundEpisode ==
    [][telegram'.next > telegram.next
          => /\ users.thread_id = 0
             /\ \A q \in Procs : ~HoldsUnboundTopic(q)]_vars

(* Invocation p is inside createTopic.                                     *)
InCreateTopic(p) ==
    proc[p].pc \in {"ct_create", "ct_probe", "ct_user", "ct_thread", "ct_ok"}

(* Invocation q awaits the in-flight promise of invocation p.              *)
AwaitsInFlight(q, p) ==
    /\ q # p
    /\ proc[q].pc = "gc_wait"
    /\ topicCreateInFlight[proc[q].iso] = p

(* C38: within one isolate, concurrent getOrCreateUserTopicRec calls for   *)
(* the unbound user run createTopic at most once at a time, a caller that  *)
(* found the in-flight promise gets the very binding the creating caller   *)
(* gets, and the Map holds an entry only while the promise of its owner is *)
(* pending.                                                                *)
C38_InFlightDedupPerIsolate ==
    /\ [](\A i \in Isolates :
             /\ Cardinality({p \in Procs : proc[p].iso = i
                                           /\ InCreateTopic(p)}) <= 1
             /\ \A p \in Procs :
                   topicCreateInFlight[i] = p
                      => /\ proc[p].iso = i
                         /\ proc[p].pc = "gc_again" \/ InCreateTopic(p))
    /\ [][\A p, q \in Procs :
             (AwaitsInFlight(q, p) /\ proc'[p].pc = "ft_map")
                => /\ proc'[q].pc = "ft_map"
                   /\ proc'[q].rec = proc'[p].rec
                   /\ proc'[q].rec = users'.thread_id
                   /\ topicCreateInFlight'[proc[p].iso] = "none"]_vars

(* C38 witness: in one isolate an invocation is about to finish createTopic *)
(* for the new user while the other awaits its in-flight promise.          *)
C38_Witness ==
    \E p, q \in Procs :
        /\ AwaitsInFlight(q, p)
        /\ proc[p].iso = proc[q].iso
        /\ proc[p].pc = "ct_ok"
        /\ users.thread_id = proc[p].rec
        /\ telegram.next = FirstThreadId + 1

(* C39: a message is copied to the group only if it passed the keyword     *)
(* filter, whether it is delivered directly or replayed from the pending   *)
(* list: no message whose text matches a keyword has a copy in a thread    *)
(* or in General.                                                          *)
C39_OnlyFilteredMessagesCopied ==
    \A m \in telegram.keyword :
        telegram.copies[m] = 0 /\ m \notin telegram.stray

(***************************************************************************)
(* Part 4.  probeForumThread on its own: one call with the answers of the  *)
(* platform drawn from every kind of answer sendMessage can give.          *)
(***************************************************************************)
PBMaxThread == 3

NoAnswer == [ok |-> FALSE, description |-> "none", thread |-> 0]

(* Answers of sendMessage: accepted with some message_thread_id (0 = the   *)
(* result carries none), or refused with a description.                    *)
PBAnswers ==
    {TgOk(a) : a \in 0 .. PBMaxThread}
    \cup {TgErr(d) : d \in {"thread not found", "message text is empty",
                            "too many requests"}}

PBInit ==
    /\ pbPc = "idle"
    /\ pbExpected = 1
    /\ pbDouble = TRUE
    /\ pbFirst = NoAnswer
    /\ pbSecond = NoAnswer
    /\ pbStatus = ""

(* A caller calls probeForumThread(env, expectedThreadId, options).        *)
pbCall ==
    /\ pbPc = "idle"
    /\ pbExpected' \in 1 .. PBMaxThread
    /\ pbDouble' \in BOOLEAN
    /\ pbPc' = "first"
    /\ pbFirst' = NoAnswer
    /\ pbSecond' = NoAnswer
    /\ pbStatus' = ""
    /\ UNCHANGED pbOthers

(* first = await attemptOnce()                                             *)
pbFirstAttempt ==
    /\ pbPc = "first"
    /\ \E res \in PBAnswers :
          /\ pbFirst' = res
          /\ IF needsSecond(res, pbExpected, pbDouble)
             THEN /\ pbPc' = "second"
                  /\ pbStatus' = pbStatus
             ELSE /\ pbPc' = "done"
                  /\ pbStatus' = probeStatus(res, NoAnswer, pbExpected, pbDouble)
    /\ UNCHANGED <<pbExpected, pbDouble, pbSecond>>
    /\ UNCHANGED pbOthers

(* second = await attemptOnce()                                            *)
pbSecondAttempt ==
    /\ pbPc = "second"
    /\ \E res \in PBAnswers :
          /\ pbSecond' = res
          /\ pbStatus' = probeStatus(pbFirst, res, pbExpected, pbDouble)
    /\ pbPc' = "done"
    /\ UNCHANGED <<pbExpected, pbDouble, pbFirst>>
    /\ UNCHANGED pbOthers

(* The caller has the status.                                              *)
pbReturn ==
    /\ pbPc = "done"
    /\ pbPc' = "idle"
    /\ UNCHANGED <<pbExpected, pbDouble, pbFirst, pbSecond, pbStatus>>
    /\ UNCHANGED pbOthers

PBNext == pbCall \/ pbFirstAttempt \/ pbSecondAttempt \/ pbReturn

(* The answer the returned status was computed from.                       *)
pbDecisive == IF pbSecond # NoAnswer THEN pbSecond ELSE pbFirst

(* C12: a probe whose acknowledged thread id differs from the expected one *)
(* returns redirected, and a probe that returns ok was acknowledged with   *)
(* the expected thread id.                                                 *)
C12_RedirectNeverOk ==
    pbPc = "done" =>
       /\ (pbDecisive.ok /\ pbDecisive.thread # 0
            /\ pbDecisive.thread # pbExpected) => pbStatus = "redirected"
       /\ pbStatus = "ok" => (pbDecisive.ok /\ pbDecisive.thread = pbExpected)

(* C12 witness: the second attempt of a probe was acknowledged with        *)
(* another thread id and the probe returned redirected.                    *)
C12_Witness ==
    /\ pbPc = "done"
    /\ pbSecond.ok
    /\ pbSecond.thread # 0
    /\ pbSecond.thread # pbExpected
    /\ pbStatus = "redirected"

(***************************************************************************)
(* Part 5.  The lease RPCs called directly: any owner token may call       *)
(* acquireLock, renewLock and releaseLock at any time.  The object runs    *)
(* one call at a time.                                                     *)
(***************************************************************************)
LSMaxTime == 3000
LSMaxToken == 2

LSTokens == 1 .. LSMaxToken
LSTtls == {1000, 2000}

NoCall == [op |-> "none", token |-> 0, ttlMs |-> 0, at |-> 0,
           before |-> NoLock, after |-> NoLock,
           result |-> [ok |-> FALSE, retryAfterMs |-> 0, expiresAt |-> 0]]

LSInit ==
    /\ lsNow = 0
    /\ lsRow = NoLock
    /\ lsCall = NoCall

lsAcquire ==
    /\ \E tok \in LSTokens, ttl \in LSTtls :
          LET r == acquireLock(lsRow, tok, ttl, lsNow)
          IN  /\ lsRow' = r.row
              /\ lsCall' = [op |-> "acquire", token |-> tok, ttlMs |-> ttl,
                            at |-> lsNow, before |-> lsRow, after |-> r.row,
                            result |-> [ok |-> r.acquired,
                                        retryAfterMs |-> r.retryAfterMs,
                                        expiresAt |-> r.expiresAt]]
    /\ UNCHANGED lsNow
    /\ UNCHANGED lsOthers

lsRenew ==
    /\ \E tok \in LSTokens, ttl \in LSTtls :
          LET r == renewLock(lsRow, tok, ttl, lsNow)
          IN  /\ lsRow' = r.row
              /\ lsCall' = [op |-> "renew", token |-> tok, ttlMs |-> ttl,
                            at |-> lsNow, before |-> lsRow, after |-> r.row,
                            result |-> [ok |-> r.renewed, retryAfterMs |-> 0,
                                        expiresAt |-> r.expiresAt]]
    /\ UNCHANGED lsNow
    /\ UNCHANGED lsOthers

lsRelease ==
    /\ \E tok \in LSTokens :
          LET r == releaseLock(lsRow, tok)
          IN  /\ lsRow' = r.row
              /\ lsCall' = [op |-> "release", token |-> tok, ttlMs |-> 0,
                            at |-> lsNow, before |-> lsRow, after |-> r.row,
                            result |-> [ok |-> r.released, retryAfterMs |-> 0,
                                        expiresAt |-> 0]]
    /\ UNCHANGED lsNow
    /\ UNCHANGED lsOthers

lsTick ==
    /\ lsNow + TickMs <= LSMaxTime
    /\ lsNow' = lsNow + TickMs
    /\ UNCHANGED <<lsRow, lsCall>>
    /\ UNCHANGED lsOthers

LSNext == lsAcquire \/ lsRenew \/ lsRelease \/ lsTick

(* The row is an unexpired lease at time `now`.                            *)
Unexpired(row, now) == row.present /\ row.expires_at > now

(* C14: acquireLock grants exactly when the key has no unexpired lease or  *)
(* the lease belongs to the caller; a grant writes the caller's lease, a   *)
(* refusal changes nothing and reports the remaining lease time; so a      *)
(* different owner is granted only once the holder's lease has run out or  *)
(* has been released.                                                      *)
C14_AcquireExactlyWhenFree ==
    lsCall.op = "acquire" =>
       LET b == lsCall.before
           free == ~Unexpired(b, lsCall.at) \/ b.owner_token = lsCall.token
       IN  /\ lsCall.result.ok <=> free
           /\ lsCall.result.ok =>
                 /\ lsCall.after = [present |-> TRUE,
                                    owner_token |-> lsCall.token,
                                    expires_at |-> lsCall.at + lsCall.ttlMs]
                 /\ lsCall.result.expiresAt = lsCall.at + lsCall.ttlMs
           /\ ~lsCall.result.ok =>
                 /\ lsCall.after = b
                 /\ lsCall.result.retryAfterMs = b.expires_at - lsCall.at
           /\ (lsCall.result.ok /\ b.present /\ b.owner_token # lsCall.token)
                 => b.expires_at <= lsCall.at

(* C14 witness: an owner is granted the lease another owner held, after    *)
(* that lease has run out.                                                 *)
C14_Witness ==
    /\ lsCall.op = "acquire"
    /\ lsCall.result.ok
    /\ lsCall.before.present
    /\ lsCall.before.owner_token # lsCall.token
    /\ lsCall.before.expires_at <= lsCall.at

(* C15: renewLock and releaseLock called with a token other than the one   *)
(* of the current lease are refused and leave the lease as it was.         *)
C15_MismatchedTokenRejected ==
    (/\ lsCall.op \in {"renew", "release"}
     /\ lsCall.before.present
     /\ lsCall.before.owner_token # lsCall.token)
        => /\ ~lsCall.result.ok
           /\ lsCall.after = lsCall.before
           /\ lsRow.present => lsRow.owner_token # lsCall.token

(* C15 witness: a renewal with another owner's token has been refused      *)
(* while the lease is unexpired.                                           *)
C15_Witness ==
    /\ lsCall.op = "renew"
    /\ Unexpired(lsCall.before, lsCall.at)
    /\ lsCall.before.owner_token # lsCall.token
    /\ ~lsCall.result.ok
    /\ lsRow = lsCall.before

(* C35: a lease whose holder has stopped renewing is not held forever: it  *)
(* ends within one TTL of the present, and once its expires_at has passed  *)
(* the next acquireLock, by any owner, is granted and replaces it with     *)
(* the caller's fresh lease.                                               *)
C35_ExpiredLeaseSuperseded ==
    /\ lsRow.present => \E ttl \in LSTtls : lsRow.expires_at <= lsNow + ttl
    /\ (/\ lsCall.op = "acquire"
        /\ lsCall.before.present
        /\ lsCall.before.expires_at <= lsCall.at)
          => /\ lsCall.result.ok
             /\ lsCall.after.present
             /\ lsCall.after.owner_token = lsCall.token
             /\ lsCall.after.expires_at > lsCall.at
             /\ lsCall.result.expiresAt = lsCall.after.expires_at

(* C35 witness: the lease of one owner ran out some time ago without       *)
(* being renewed or released, and another owner has just taken the key.    *)
C35_Witness ==
    /\ lsCall.op = "acquire"
    /\ lsCall.before.present
    /\ lsCall.before.expires_at < lsCall.at
    /\ lsCall.before.owner_token # lsCall.token
    /\ lsRow.owner_token = lsCall.token
    /\ lsRow.expires_at > lsNow

(* What the caller of renewLock sees when the lease of the key is held,    *)
(* unexpired, by another owner.                                            *)
RenewResultWhenLost(token, other, ttlMs, now) ==
    LET r == renewLock([present |-> TRUE, owner_token |-> other,
                        expires_at |-> now + ttlMs], token, ttlMs, now)
    IN  [ok |-> r.renewed, retryAfterMs |-> 0, expiresAt |-> r.expiresAt]

(* C16: the result of renewing a lease of one's own that has merely run    *)
(* out differs from the result of renewing when another owner holds the    *)
(* lease.                                                                  *)
C16_RejectedRenewalTellsWhy ==
    (/\ lsCall.op = "renew"
     /\ ~lsCall.result.ok
     /\ lsCall.before.present
     /\ lsCall.before.owner_token = lsCall.token
     /\ lsCall.before.expires_at <= lsCall.at)
        => \A other \in LSTokens \ {lsCall.token} :
              lsCall.result #
                 RenewResultWhenLost(lsCall.token, other, lsCall.ttlMs, lsCall.at)

(***************************************************************************)
(* Part 6.  acquireUserLock and releaseUserLock when env.RATE_LIMIT_DO is   *)
(* not configured: the lock is an entry of TOPIC_MAP written with put and  *)
(* confirmed by reading it back.  Times are scaled as in Part 2.           *)
(***************************************************************************)
KVMaxTime == 3000

KvCfg == normalizeLockConfig(CHOOSE cfg \in LockConfigs : TRUE)

(* expirationTtl: Math.ceil(cfg.ttlMs / 1000) seconds after the put.       *)
KvExpiry(now, ttlMs) == now + ((ttlMs + 999) \div 1000) * 1000

(* env.TOPIC_MAP.get(kvKey): the stored token, 0 for null.                 *)
KvGet(lock, now) ==
    IF lock.present /\ lock.expires_at > now THEN lock.owner_token ELSE 0

KVInit ==
    /\ kvNow = 0
    /\ kvLock = NoLock
    /\ kvPc = [c \in Clients |-> "idle"]
    /\ kvToken = [c \in Clients |-> 0]
    /\ kvNextToken = 1
    /\ kvDeadline = [c \in Clients |-> 0]
    /\ kvWake = [c \in Clients |-> 0]
    /\ kvPuts = [c \in Clients |-> 0]

(* withUserLock calls acquireUserLock: ownerToken and deadline are fixed.  *)
kvCall(c) ==
    /\ kvPc[c] = "idle"
    /\ kvPc' = [kvPc EXCEPT ![c] = "loop"]
    /\ kvToken' = [kvToken EXCEPT ![c] = kvNextToken]
    /\ kvNextToken' = kvNextToken + 1
    /\ kvDeadline' = [kvDeadline EXCEPT ![c] = kvNow + KvCfg.acquireTimeoutMs]
    /\ UNCHANGED <<kvNow, kvLock, kvWake, kvPuts>>
    /\ UNCHANGED kvOthers

(* Loop test and TOPIC_MAP.get(kvKey); past the deadline the call throws   *)
(* UserLockTimeoutError.                                                   *)
kvExisting(c) ==
    /\ kvPc[c] = "loop"
    /\ IF kvNow < kvDeadline[c]
       THEN IF KvGet(kvLock, kvNow) = 0
            THEN /\ kvPc' = [kvPc EXCEPT ![c] = "put"]
                 /\ UNCHANGED kvWake
            ELSE /\ kvPc' = [kvPc EXCEPT ![c] = "sleep"]
                 /\ kvWake' = [kvWake EXCEPT ![c] = kvNow + KvCfg.retryIntervalMs]
       ELSE /\ kvPc' = [kvPc EXCEPT ![c] = "timeout"]
            /\ UNCHANGED kvWake
    /\ UNCHANGED <<kvNow, kvLock, kvToken, kvNextToken, kvDeadline, kvPuts>>
    /\ UNCHANGED kvOthers

(* TOPIC_MAP.put(kvKey, ownerToken, { expirationTtl }).                    *)
kvPut(c) ==
    /\ kvPc[c] = "put"
    /\ kvLock' = [present |-> TRUE, owner_token |-> kvToken[c],
                  expires_at |-> KvExpiry(kvNow, KvCfg.ttlMs)]
    /\ kvPuts' = [kvPuts EXCEPT ![c] = @ + 1]
    /\ kvPc' = [kvPc EXCEPT ![c] = "confirm"]
    /\ UNCHANGED <<kvNow, kvToken, kvNextToken, kvDeadline, kvWake>>
    /\ UNCHANGED kvOthers

(* confirmed = TOPIC_MAP.get(kvKey): the lock is held when the entry still *)
(* carries the caller's token; fn() then runs.                             *)
kvConfirm(c) ==
    /\ kvPc[c] = "confirm"
    /\ IF KvGet(kvLock, kvNow) = kvToken[c]
       THEN /\ kvPc' = [kvPc EXCEPT ![c] = "held"]
            /\ UNCHANGED kvWake
       ELSE /\ kvPc' = [kvPc EXCEPT ![c] = "sleep"]
            /\ kvWake' = [kvWake EXCEPT ![c] = kvNow + KvCfg.retryIntervalMs]
    /\ UNCHANGED <<kvNow, kvLock, kvToken, kvNextToken, kvDeadline, kvPuts>>
    /\ UNCHANGED kvOthers

(* sleep(cfg.retryIntervalMs) is over.                                     *)
kvWakeUp(c) ==
    /\ kvPc[c] = "sleep"
    /\ kvNow >= kvWake[c]
    /\ kvPc' = [kvPc EXCEPT ![c] = "loop"]
    /\ UNCHANGED <<kvNow, kvLock, kvToken, kvNextToken, kvDeadline, kvWake, kvPuts>>
    /\ UNCHANGED kvOthers

(* releaseUserLock after fn(): existing = TOPIC_MAP.get(kvKey).            *)
kvReleaseGet(c) ==
    /\ kvPc[c] = "held"
    /\ kvPc' = [kvPc EXCEPT ![c] = IF KvGet(kvLock, kvNow) = kvToken[c]
                                   THEN "delete" ELSE "done"]
    /\ UNCHANGED <<kvNow, kvLock, kvToken, kvNextToken, kvDeadline, kvWake, kvPuts>>
    /\ UNCHANGED kvOthers

(* releaseUserLock: TOPIC_MAP.delete(kvKey).                               *)
kvReleaseDelete(c) ==
    /\ kvPc[c] = "delete"
    /\ kvLock' = NoLock
    /\ kvPc' = [kvPc EXCEPT ![c] = "done"]
    /\ UNCHANGED <<kvNow, kvToken, kvNextToken, kvDeadline, kvWake, kvPuts>>
    /\ UNCHANGED kvOthers

(* Time passes; sleeps that are due end before the clock moves on.         *)
KVTick ==
    /\ kvNow + TickMs <= KVMaxTime
    /\ \A c \in Clients :
          /\ kvPc[c] # "loop"
          /\ kvPc[c] = "sleep" => kvWake[c] > kvNow
    /\ kvNow' = kvNow + TickMs
    /\ UNCHANGED <<kvLock, kvPc, kvToken, kvNextToken, kvDeadline, kvWake, kvPuts>>
    /\ UNCHANGED kvOthers

KVNext ==
    \/ \E c \in Clients : kvCall(c)
    \/ \E c \in Clients : kvExisting(c)
    \/ \E c \in Clients : kvPut(c)
    \/ \E c \in Clients : kvConfirm(c)
    \/ \E c \in Clients : kvWakeUp(c)
    \/ \E c \in Clients : kvReleaseGet(c)
    \/ \E c \in Clients : kvReleaseDelete(c)
    \/ KVTick

(* C17: a caller whose acquisition ended in UserLockTimeoutError has       *)
(* written no lease record (and its critical section never ran).           *)
C17_TimedOutCallerWroteNothing ==
    \A c \in Clients : kvPc[c] = "timeout" => kvPuts[c] = 0

(* C40: in KV lock mode two concurrent acquireUserLock calls for the same  *)
(* user never both return a lease: at most one caller is between the      *)
(* return of acquireUserLock and the end of its releaseUserLock.           *)
KvReturnedLease(c) == kvPc[c] \in {"held", "delete"}

C40_KvCallsNeverBothReturnLease ==
    \A c1, c2 \in Clients :
        (KvReturnedLease(c1) /\ KvReturnedLease(c2)) => c1 = c2

(***************************************************************************)
(* Part 7.  createTopicImpl on its own: the retry loop around               *)
(* createForumTopic and the verify-after-create probe, with the answers of  *)
(* the platform chosen freely.  The writes of the binding after a passed   *)
(* probe are those of Part 3 (ctUserUpdate, ctThreadPut, ctHealthPut).     *)
(***************************************************************************)
TCMaxRetries == 3

(* Descriptions of failed calls (lower case, as normalizeDesc leaves them). *)
FatalDescriptions ==
    {"bad request: not enough rights to create a topic",
     "bad request: chat not found",
     "forbidden: bot is not a member of the supergroup chat",
     "forbidden: bot was kicked from the supergroup chat",
     "bad request: have no rights to send a message"}
PlainDescriptions ==
    {"too many requests: retry after 5", "request timeout"}

(* Answers of createForumTopic: thread 0 = result without message_thread_id *)
CreateAnswers(nextId) ==
    {[ok |-> TRUE, thread |-> t, description |-> ""] : t \in {0, nextId}}
        \cup {[ok |-> FALSE, thread |-> 0, description |-> d] :
                  d \in FatalDescriptions \cup PlainDescriptions}

(* Results of probeForumThread(threadId, doubleCheckOnMissingThreadId:     *)
(* false): only a failed send carries a description.                       *)
ProbeResults ==
    {[status |-> st, description |-> ""] :
        st \in {"ok", "probe_invalid", "missing", "missing_thread_id", "redirected"}}
        \cup {[status |-> "unknown_error", description |-> d] :
                  d \in FatalDescriptions \cup PlainDescriptions}

NoProbe == [status |-> "", description |-> ""]

isCreateNonRetryable(desc) == desc \in FatalDescriptions

(* isProbeNonRetryable that retries every failed probe.                    *)
isProbeNonRetryableNever(status, desc) == FALSE

isProbeNonRetryable(status, desc) ==
    IF status = "probe_invalid" THEN TRUE ELSE isCreateNonRetryable(desc)

(* Loop test that allows one attempt too many.                             *)
MoreAttemptsOffByOne(attempt, retries) == attempt <= retries + 1

(* Loop test of the for statement: attempt <= retries.                     *)
MoreAttempts(attempt, retries) == attempt <= retries

TCInit ==
    /\ tcPc = "idle"
    /\ tcRetries \in 0..TCMaxRetries
    /\ tcAttempt = 0
    /\ tcCalls = 0
    /\ tcNextId = FirstThreadId
    /\ tcThread = 0
    /\ tcProbe = NoProbe
    /\ tcLastError = ""
    /\ tcThrown = ""
    /\ tcFatalAt = 0

(* createTopic is called: attempt = 0, lastError = null.                   *)
tcCall ==
    /\ tcPc = "idle"
    /\ tcPc' = "loop"
    /\ UNCHANGED <<tcRetries, tcAttempt, tcCalls, tcNextId, tcThread, tcProbe,
                   tcLastError, tcThrown, tcFatalAt>>
    /\ UNCHANGED tcOthers

(* Loop test; after the last attempt: throw lastError || unknown error.    *)
tcLoop ==
    /\ tcPc = "loop"
    /\ IF MoreAttempts(tcAttempt, tcRetries)
       THEN /\ tcPc' = "create"
            /\ UNCHANGED tcThrown
       ELSE /\ tcPc' = "threw"
            /\ tcThrown' = IF tcLastError # "" THEN tcLastError ELSE "unknown"
    /\ tcThread' = 0
    /\ tcProbe' = NoProbe
    /\ UNCHANGED <<tcRetries, tcAttempt, tcCalls, tcNextId, tcLastError, tcFatalAt>>
    /\ UNCHANGED tcOthers

(* tgCall(createForumTopic) and the branches on its answer.                *)
tcCreateForumTopic ==
    /\ tcPc = "create"
    /\ tcCalls' = tcCalls + 1
    /\ \E res \in CreateAnswers(tcNextId) :
          IF ~res.ok
          THEN /\ tcFatalAt' = IF res.description \in FatalDescriptions
                               THEN tcCalls + 1 ELSE tcFatalAt
               /\ IF isCreateNonRetryable(res.description)
                  THEN /\ tcPc' = "threw"
                       /\ tcThrown' = "create_failed_non_retryable"
                       /\ UNCHANGED tcLastError
                  ELSE /\ tcPc' = "backoff"
                       /\ tcLastError' = "create_failed"
                       /\ UNCHANGED tcThrown
               /\ UNCHANGED <<tcNextId, tcThread>>
          ELSE IF res.thread = 0
          THEN /\ tcLastError' = "no_thread_id"
               /\ IF tcAttempt < tcRetries
                  THEN /\ tcPc' = "backoff"
                       /\ UNCHANGED tcThrown
                  ELSE /\ tcPc' = "threw"
                       /\ tcThrown' = "no_thread_id"
               /\ UNCHANGED <<tcNextId, tcThread, tcFatalAt>>
          ELSE /\ tcPc' = "probe"
               /\ tcThread' = res.thread
               /\ tcNextId' = tcNextId + 1
               /\ UNCHANGED <<tcLastError, tcThrown, tcFatalAt>>
    /\ UNCHANGED <<tcRetries, tcAttempt, tcProbe>>
    /\ UNCHANGED tcOthers

(* probeForumThread of the new thread: a passed probe returns rec, a       *)
(* non-retryable failure throws, any other failure closes the topic.       *)
tcVerify ==
    /\ tcPc = "probe"
    /\ \E probe \in ProbeResults :
          /\ tcProbe' = probe
          /\ tcFatalAt' = IF probe.description \in FatalDescriptions
                          THEN tcCalls ELSE tcFatalAt
          /\ IF probe.status \in {"ok", "probe_invalid"}
             THEN /\ tcPc' = "returned"
                  /\ UNCHANGED tcThrown
             ELSE IF isProbeNonRetryable(probe.status, probe.description)
             THEN /\ tcPc' = "threw"
                  /\ tcThrown' = "verify_failed_non_retryable"
             ELSE /\ tcPc' = "close"
                  /\ UNCHANGED tcThrown
    /\ UNCHANGED <<tcRetries, tcAttempt, tcCalls, tcNextId, tcThread, tcLastError>>
    /\ UNCHANGED tcOthers

(* closeForumTopic of the thread that failed the probe (errors ignored).   *)
tcClose ==
    /\ tcPc = "close"
    /\ tcLastError' = "verify_failed"
    /\ tcPc' = "backoff"
    /\ UNCHANGED <<tcRetries, tcAttempt, tcCalls, tcNextId, tcThread, tcProbe,
                   tcThrown, tcFatalAt>>
    /\ UNCHANGED tcOthers

(* The back-off sleep (when attempt < retries) and attempt++.              *)
tcBackoff ==
    /\ tcPc = "backoff"
    /\ tcAttempt' = tcAttempt + 1
    /\ tcPc' = "loop"
    /\ UNCHANGED <<tcRetries, tcCalls, tcNextId, tcThread, tcProbe, tcLastError,
                   tcThrown, tcFatalAt>>
    /\ UNCHANGED tcOthers

TCNext ==
    \/ tcCall
    \/ tcLoop
    \/ tcCreateForumTopic
    \/ tcVerify
    \/ tcClose
    \/ tcBackoff

TCDone == tcPc \in {"returned", "threw"}

C24_NonRetryableAbortsAtOnce ==
    tcFatalAt > 0 => /\ tcPc = "threw"
                     /\ tcCalls = tcFatalAt
                     /\ tcThrown \in {"create_failed_non_retryable",
                                      "verify_failed_non_retryable"}

(* The probe of the second topic failed with a permission error although   *)
(* retries were left: the call threw.                                      *)
C24_Witness ==
    /\ tcFatalAt = 2
    /\ tcRetries >= 2
    /\ tcPc = "threw"
    /\ tcThrown = "verify_failed_non_retryable"
    /\ tcProbe.description \in FatalDescriptions

(* C31: createTopic persists the binding (dbUserUpdate, dbThreadPut, then  *)
(* return rec) only for a newly created thread whose verify-after-create   *)
(* probe returned ok.                                                      *)
C31_BindingOnlyAfterOkProbe ==
    tcPc = "returned" => /\ tcThread # 0
                         /\ tcProbe.status = "ok"

(***************************************************************************)
(* Part 8.  The pending list of one challenge, from its creation with the  *)
(* first message to its replay: sendVerificationChallenge queues a message *)
(* on the existing challenge (read, then put), the verification callback   *)
(* reads the list and replays it.  Private messages carry increasing ids;  *)
(* the latest one may be delivered again.                                  *)
(***************************************************************************)
PQMaxMsgs == 11

PqIdle == [pc |-> "idle", m |-> 0, read |-> <<>>]
NoPut == [read |-> <<>>, m |-> 0, list |-> <<>>]

(* The challenge has just been created with pending_ids = [first message]. *)
PQInit ==
    /\ pqPresent = TRUE
    /\ pqList = <<1>>
    /\ pqNext = 2
    /\ pqW = [p \in Procs |-> PqIdle]
    /\ pqLast = NoPut
    /\ pqReplay = <<>>

(* sendVerificationChallenge(pendingMsgId): the state of the existing      *)
(* challenge is read; a message already in the list is skipped.            *)
pqRead(p) ==
    /\ pqW[p].pc = "idle"
    /\ pqPresent
    /\ \E m \in {pqNext - 1, pqNext} :
          /\ m <= PQMaxMsgs
          /\ pqNext' = IF m = pqNext THEN pqNext + 1 ELSE pqNext
          /\ pqW' = [pqW EXCEPT ![p] =
                        IF InSeq(m, pqList) THEN PqIdle
                        ELSE [pc |-> "put", m |-> m, read |-> pqList]]
    /\ UNCHANGED <<pqPresent, pqList, pqLast, pqReplay>>
    /\ UNCHANGED pqOthers

(* pendingIds.push(pendingMsgId), trim, TOPIC_MAP.put(chalKey, state).     *)
pqAppend(p) ==
    /\ pqW[p].pc = "put"
    /\ LET list == TrimPending(Append(pqW[p].read, pqW[p].m)) IN
          /\ pqList' = list
          /\ pqLast' = [read |-> pqW[p].read, m |-> pqW[p].m, list |-> list]
    /\ pqW' = [pqW EXCEPT ![p] = PqIdle]
    /\ UNCHANGED <<pqPresent, pqNext, pqReplay>>
    /\ UNCHANGED pqOthers

(* handleCallbackQuery with the right answer: the state read by the        *)
(* callback is deleted and its pending ids, trimmed once more, are         *)
(* replayed in list order.                                                 *)
pqCallback ==
    /\ pqPresent
    /\ pqReplay' = TrimPending(pqList)
    /\ pqPresent' = FALSE
    /\ UNCHANGED <<pqList, pqNext, pqW, pqLast>>
    /\ UNCHANGED pqOthers

PQNext ==
    \/ \E p \in Procs : pqRead(p)
    \/ \E p \in Procs : pqAppend(p)
    \/ pqCallback

(* The list holds no message id twice and lists the messages in the order  *)
(* of their arrival (ids grow with arrival).                               *)
PqOrdered(s) == \A i, j \in 1 .. Len(s) : i < j => s[i] < s[j]

RLIdle == RLInit /\ rlLimit = 1 /\ rlWindow = 1

LKIdle == LKInit /\ lkCfg = CHOOSE cfg \in LockConfigs : TRUE

FLIdle == FLInit /\ hist.start = "fresh"

PBIdle == PBInit

TCIdle == TCInit /\ tcRetries = 0

InitRL == RLInit /\ LKIdle /\ FLIdle /\ PBIdle /\ LSInit /\ KVInit /\ TCIdle /\ PQInit

SpecRL == InitRL /\ [][RLNext]_vars

InitLock == LKInit /\ RLIdle /\ FLIdle /\ PBIdle /\ LSInit /\ KVInit /\ TCIdle /\ PQInit

SpecLock == InitLock /\ [][LKNext]_vars

InitFlow == FLInit /\ RLIdle /\ LKIdle /\ PBIdle /\ LSInit /\ KVInit /\ TCIdle /\ PQInit

SpecFlow == InitFlow /\ [][FLNext]_vars

InitProbe == PBInit /\ RLIdle /\ LKIdle /\ FLIdle /\ LSInit /\ KVInit /\ TCIdle /\ PQInit

SpecProbe == InitProbe /\ [][PBNext]_vars

InitLease == LSInit /\ RLIdle /\ LKIdle /\ FLIdle /\ PBIdle /\ KVInit /\ TCIdle /\ PQInit

SpecLease == InitLease /\ [][LSNext]_vars

InitKv == KVInit /\ RLIdle /\ LKIdle /\ FLIdle /\ PBIdle /\ LSInit /\ TCIdle /\ PQInit

SpecKv == InitKv /\ [][KVNext]_vars

InitCreate == TCInit /\ RLIdle /\ LKIdle /\ FLIdle /\ PBIdle /\ LSInit /\ KVInit /\ PQInit

(* The runtime runs the call to its end: every await of createTopicImpl    *)
(* settles (tgCall has a timeout, the back-off is a timer).                *)
SpecCreate == InitCreate /\ [][TCNext]_vars /\ WF_vars(TCNext)

InitPending == PQInit /\ RLIdle /\ LKIdle /\ FLIdle /\ PBIdle /\ LSInit /\ KVInit /\ TCIdle

SpecPending == InitPending /\ [][PQNext]_vars

====
